---- MODULE Spec2Model ----
(***************************************************************************)
(* A model of the DeepDelta comparison engine (src/src/deepdelta): key     *)
(* normalisation and matching, sequence-to-map alignment, the recursive    *)
(* delta algorithm, the typed comparators and the output formatters.       *)
(*                                                                         *)
(* Python values are tagged pairs <<tag, payload>>:                        *)
(*   <<"none", 0>>, <<"int", n>>, <<"bool", b>>, <<"nan", 0>> (float nan), *)
(*   <<"float", n>> for the double nearest to n / 10^4, <<"Decimal", n>>   *)
(*   for the decimal n / 10^4, <<"datetime", t>>,                          *)
(*   <<"str", s>> with s a sequence of one-character strings,              *)
(*   <<"tuple", seq>>, <<"list", seq>>, <<"dict", f>> with f a function    *)
(*   from key values to values, <<"type", name>>, and                      *)
(*   <<"pattern", [ic, toks]>> for a compiled regular expression.          *)
(* A raised exception is the pair <<"raise", name>>.                       *)
(***************************************************************************)
EXTENDS Integers, Sequences, FiniteSets, TLC

VARIABLES
    options,            \* DeepDelta.compare(options=...): the DeltaConfig bits, 0 for None
    named_comparators,  \* DeepDelta.compare(named_comparators=...): <<specifier, comparator>> in dict order
    keys_excluded,      \* DeepDelta.compare(*excluded_keys): sequence of specifiers
    lhs, rhs,           \* the two values under comparison
    pc,                 \* "start" -> "ready" | "raised" -> "done"; "call" -> "returned" for key_matches
    engine,             \* the constructed DeepDelta instance
    result,             \* what compare returned (a delta) or raised
    km_kp, km_key_path, km_case_ignored,  \* key_matches(kp, key_path, case_ignored) called directly
    km_matched,         \* its return value
    output_buffer,      \* delta_output.Output_Buffer: output bits -> the formatter registered
    default_type_comparator,  \* comparator.DEFAULT_TYPE_COMPARATOR: types -> the comparator registered
    call_args,          \* the arguments of another function of the package called directly
    call_result         \* what that call returned or raised

vars == <<options, named_comparators, keys_excluded, lhs, rhs, pc, engine, result,
          km_kp, km_key_path, km_case_ignored, km_matched, output_buffer,
          default_type_comparator, call_args, call_result>>

-----------------------------------------------------------------------------
(* Strings                                                                  *)

PATH_SEPARATOR == ">"

LowerOf ==
    ("A" :> "a") @@ ("B" :> "b") @@ ("C" :> "c") @@ ("D" :> "d") @@ ("E" :> "e") @@
    ("F" :> "f") @@ ("G" :> "g") @@ ("H" :> "h") @@ ("I" :> "i") @@ ("J" :> "j") @@
    ("K" :> "k") @@ ("L" :> "l") @@ ("M" :> "m") @@ ("N" :> "n") @@ ("O" :> "o") @@
    ("P" :> "p") @@ ("Q" :> "q") @@ ("R" :> "r") @@ ("S" :> "s") @@ ("T" :> "t") @@
    ("U" :> "u") @@ ("V" :> "v") @@ ("W" :> "w") @@ ("X" :> "x") @@ ("Y" :> "y") @@
    ("Z" :> "z")

\* str.casefold() on the modelled alphabet; the str is evaluated once, as the
\* receiver of a method call is
casefold(s) ==
    CHOOSE folded \in {[i \in 1..Len(t) |-> IF t[i] \in DOMAIN LowerOf THEN LowerOf[t[i]] ELSE t[i]] :
                          t \in {s}} : TRUE

SetMin(S) == CHOOSE x \in S : \A y \in S : x <= y
SetMax(S) == CHOOSE x \in S : \A y \in S : x >= y

\* str.strip(): leading and trailing blanks removed
strip(s) ==
    CHOOSE stripped \in {IF keep = {} THEN <<>> ELSE SubSeq(t, SetMin(keep), SetMax(keep)) :
                            t \in {s}, keep \in {{i \in 1..Len(s) : s[i] # " "}}} : TRUE

\* str.endswith(suffix)
endswith(s, suffix) ==
    /\ Len(suffix) <= Len(s)
    /\ SubSeq(s, Len(s) - Len(suffix) + 1, Len(s)) = suffix

\* s.split(PATH_SEPARATOR)[-1]
LastSplit(s) ==
    CHOOSE last \in {IF seps = {} THEN t ELSE SubSeq(t, SetMax(seps) + 1, Len(t)) :
                        t \in {s}, seps \in {{i \in 1..Len(s) : s[i] = PATH_SEPARATOR}}} : TRUE

-----------------------------------------------------------------------------
(* Regular expressions: a compiled pattern is a sequence of tokens          *)
(*   [k |-> "lit", c |-> ch]   the character ch                             *)
(*   [k |-> "dot", c |-> "."]  any character                                *)
(*   [k |-> "dotstar", c |-> ".*"]  any run of characters                   *)
(* with the re.IGNORECASE flag ic.                                          *)

RECURSIVE MatchFrom(_, _, _)
\* the backtracking matcher: do the tokens toks match all of s
MatchFrom(toks, s, ic) ==
    IF toks = <<>> THEN s = <<>>
    ELSE LET t == Head(toks) IN
         CASE t.k = "lit" ->
                /\ s # <<>>
                /\ IF ic THEN casefold(<<s[1]>>) = casefold(<<t.c>>) ELSE s[1] = t.c
                /\ MatchFrom(Tail(toks), Tail(s), ic)
           [] t.k = "dot" ->
                /\ s # <<>>
                /\ MatchFrom(Tail(toks), Tail(s), ic)
           [] OTHER ->
                \E n \in 0..Len(s) : MatchFrom(Tail(toks), SubSeq(s, n + 1, Len(s)), ic)

\* re.fullmatch(pattern, string) is not None
fullmatch(pattern, string) == MatchFrom(pattern[2].toks, string, pattern[2].ic)

-----------------------------------------------------------------------------
(* Python values                                                            *)

None == <<"none", 0>>
BoolV(b) == <<"bool", b>>
IntV(n) == <<"int", n>>
StrV(s) == <<"str", s>>
TupleV(seq) == <<"tuple", seq>>
ListV(seq) == <<"list", seq>>
DictV(f) == <<"dict", f>>
NaN == <<"nan", 0>>
FloatV(n) == <<"float", n>>
DecimalV(n) == <<"Decimal", n>>
Raise(name) == <<"raise", name>>
EmptyDict == DictV(<<>>)

IsStr(v) == v[1] = "str"
IsRaise(v) == v[1] = "raise"
IsMapping(v) == v[1] = "dict"
\* isinstance(v, collections.abc.Sequence): str, list and tuple are Sequences
IsSequence(v) == v[1] \in {"str", "list", "tuple"}
\* isinstance(v, collections.abc.Collection)
IsCollection(v) == v[1] \in {"str", "list", "tuple", "dict"}

\* type(v)
TypeOf(v) ==
    CASE v[1] = "none" -> "NoneType"
      [] v[1] = "nan" -> "float"
      [] OTHER -> v[1]

RECURSIVE Pow10(_)
Pow10(k) == IF k = 0 THEN 1 ELSE 10 * Pow10(k - 1)

\* the fractional digits a float or Decimal of the model is written with
FracDigits == 4

\* a bool, an int, a float other than nan, or a Decimal
IsNumber(v) == v[1] \in {"bool", "int", "float", "Decimal"}

\* the number in units of 10^-FracDigits; for a float, the decimal it is
\* the nearest double to
Scaled(v) ==
    CASE v[1] = "bool" -> IF v[2] THEN Pow10(FracDigits) ELSE 0
      [] v[1] = "int" -> v[2] * Pow10(FracDigits)
      [] OTHER -> v[2]

\* is the number exactly the decimal it is written as: a double is when the
\* decimal is a multiple of 2^-FracDigits
IsExact(v) == v[1] # "float" \/ v[2] % (Pow10(FracDigits) \div 16) = 0

\* == of two numbers: Python compares their exact values
NumEq(a, b) == Scaled(a) = Scaled(b) /\ (a[1] = b[1] \/ (IsExact(a) /\ IsExact(b)))

RECURSIVE SameOrEqual(_, _)
\* x is y or x == y, the comparison the containers make of their items: a nan
\* inside a container is the same object on both sides
SameOrEqual(a, b) ==
    IF IsNumber(a) /\ IsNumber(b) THEN NumEq(a, b)
    ELSE IF a[1] # b[1] THEN FALSE
    ELSE IF a[1] \in {"list", "tuple"}
    THEN Len(a[2]) = Len(b[2]) /\ \A i \in 1..Len(a[2]) : SameOrEqual(a[2][i], b[2][i])
    ELSE IF a[1] = "dict"
    THEN /\ Cardinality(DOMAIN a[2]) = Cardinality(DOMAIN b[2])
         /\ \A k \in DOMAIN a[2] : \E j \in DOMAIN b[2] :
                SameOrEqual(k, j) /\ SameOrEqual(a[2][k], b[2][j])
    ELSE a = b

\* lhs == rhs of Python: equality by value, numbers of different types
\* included, except that a float nan is equal to nothing, itself included
PyEq(a, b) == a # NaN /\ b # NaN /\ SameOrEqual(a, b)

\* bool(v): the truth value of v
Truthy(v) ==
    CASE v[1] = "none" -> FALSE
      [] v[1] = "bool" -> v[2]
      [] v[1] \in {"int", "float", "Decimal"} -> v[2] # 0
      [] v[1] \in {"str", "list", "tuple"} -> Len(v[2]) # 0
      [] v[1] = "dict" -> DOMAIN v[2] # {}
      [] OTHER -> TRUE

Digits == <<"0", "1", "2", "3", "4", "5", "6", "7", "8", "9">>

RECURSIVE IntStr(_)
\* str(n) of a non-negative int
IntStr(n) == IF n < 10 THEN <<Digits[n + 1]>> ELSE IntStr(n \div 10) \o <<Digits[(n % 10) + 1]>>

RECURSIVE PadDigits(_, _)
\* the last k decimal digits of n
PadDigits(n, k) == IF k = 0 THEN <<>> ELSE PadDigits(n \div 10, k - 1) \o <<Digits[(n % 10) + 1]>>

RECURSIVE TrimZeros(_)
\* a run of digits without its trailing zeros
TrimZeros(s) == IF s # <<>> /\ s[Len(s)] = "0" THEN TrimZeros(SubSeq(s, 1, Len(s) - 1)) ELSE s

\* the shortest decimal that reads back as the number: the digits after the
\* point, none when they are all zero
FracStr(n) == TrimZeros(PadDigits(n % Pow10(FracDigits), FracDigits))

\* repr of a float: at least one digit after the point
FloatRepr(n) ==
    IntStr(n \div Pow10(FracDigits)) \o <<".">> \o (IF FracStr(n) = <<>> THEN <<"0">> ELSE FracStr(n))

\* str of a Decimal built from its shortest decimal
DecimalStr(n) ==
    IntStr(n \div Pow10(FracDigits)) \o (IF FracStr(n) = <<>> THEN <<>> ELSE <<".">> \o FracStr(n))

RECURSIVE SetToSeq(_)
\* the elements of a finite set in some order
SetToSeq(S) == IF S = {} THEN <<>> ELSE LET x == CHOOSE y \in S : TRUE IN <<x>> \o SetToSeq(S \ {x})

RECURSIVE Join(_, _)
\* sep.join(parts)
Join(parts, sep) ==
    IF parts = <<>> THEN <<>>
    ELSE IF Len(parts) = 1 THEN parts[1]
    ELSE parts[1] \o sep \o Join(Tail(parts), sep)

RECURSIVE PyRepr(_)
\* repr(v)
PyRepr(v) ==
    CASE v[1] = "none" -> <<"N", "o", "n", "e">>
      [] v[1] = "bool" -> IF v[2] THEN <<"T", "r", "u", "e">> ELSE <<"F", "a", "l", "s", "e">>
      [] v[1] = "int" -> IntStr(v[2])
      [] v[1] = "nan" -> <<"n", "a", "n">>
      [] v[1] = "float" -> FloatRepr(v[2])
      [] v[1] = "Decimal" ->
            <<"D", "e", "c", "i", "m", "a", "l", "(", "'">> \o DecimalStr(v[2]) \o <<"'", ")">>
      [] v[1] = "str" -> <<"'">> \o v[2] \o <<"'">>
      [] v[1] = "datetime" ->
            <<"d", "a", "t", "e", "t", "i", "m", "e", ".", "d", "a", "t", "e", "t", "i", "m", "e", "(">>
            \o Join([i \in 1..(IF v[2][6] = 0 THEN 5 ELSE 6) |-> IntStr(v[2][i])], <<",", " ">>)
            \o <<")">>
      [] v[1] = "tuple" ->
            IF Len(v[2]) = 1 THEN <<"(">> \o PyRepr(v[2][1]) \o <<",", ")">>
            ELSE <<"(">> \o Join([i \in 1..Len(v[2]) |-> PyRepr(v[2][i])], <<",", " ">>) \o <<")">>
      [] v[1] = "list" ->
            <<"[">> \o Join([i \in 1..Len(v[2]) |-> PyRepr(v[2][i])], <<",", " ">>) \o <<"]">>
      [] v[1] = "dict" ->
            LET ks == SetToSeq(DOMAIN v[2])
            IN  <<"{">> \o Join([i \in 1..Len(ks) |-> PyRepr(ks[i]) \o <<":", " ">> \o PyRepr(v[2][ks[i]])],
                                <<",", " ">>) \o <<"}">>
      [] OTHER -> <<"<", v[1], ">">>

\* str(v)
PyStr(v) ==
    IF IsStr(v) THEN v[2]
    ELSE IF v[1] = "Decimal" THEN DecimalStr(v[2])
    ELSE IF v[1] = "datetime"
    THEN PadDigits(v[2][1], 4) \o <<"-">> \o PadDigits(v[2][2], 2) \o <<"-">> \o PadDigits(v[2][3], 2)
         \o <<" ">> \o PadDigits(v[2][4], 2) \o <<":">> \o PadDigits(v[2][5], 2)
         \o <<":">> \o PadDigits(v[2][6], 2)
    ELSE PyRepr(v)

-----------------------------------------------------------------------------
(* DeltaConfig (delta_config.py): a set of bit flags                        *)

KeyCaseIgnored == 1
ValueCaseIgnored == 2
CaseIgnored == 3
KeySpaceTrimmed == 4
ValueSpaceTrimmed == 8
SpaceTrimmed == 12
IdAsKey == 16
NoneUnequalDefault == 32
MissingAsNone == 64
OutputKeepAllDetails == 128
OutputWithDeltaIndicator == 256
OutputIncludeValueTypes == 512
OutputDeltaAsDict == 1024
OutputDeltaAsStr == 2048
OutputFormatMask == 3968
OutputDefault == 0
OutputWithFlag == 256
OutputAllDetails == 896
OutputNoneOrDict == 1024
OutputNoneOrDictRaw == 1152
OutputNoneOrStrRaw == 2176

RECURSIVE BitAnd(_, _)
\* a & b
BitAnd(a, b) ==
    IF a = 0 \/ b = 0 THEN 0
    ELSE 2 * BitAnd(a \div 2, b \div 2) + (IF a % 2 = 1 /\ b % 2 = 1 THEN 1 ELSE 0)

\* a | b
BitOr(a, b) == a + b - BitAnd(a, b)

\* matches with the mask joined to the flags bit by bit
matches_bitwise_or(self, flags, mask) == BitAnd(self, BitOr(mask, flags)) = flags

\* DeltaConfig.matches(flags, mask): self & (mask or flags) == flags; a mask of
\* None or of no bits is falsy, and then the flags are their own mask
matches(self, flags, mask) == BitAnd(self, IF mask # 0 THEN mask ELSE flags) = flags

DEFAULT_DELTA_CONFIG == 95

-----------------------------------------------------------------------------
(* Output formatters (delta_output.py)                                      *)

TYPE_ABBREVIATIONS ==
    ("list" :> StrV(<<"[", ".", ".", ".", "]">>)) @@
    ("set" :> StrV(<<"{", ",", ",", "}">>)) @@
    ("dict" :> StrV(<<"{", ".", ".", ".", "}">>)) @@
    ("tuple" :> StrV(<<"(", ".", ".", ".", ")">>))

LEFT_KEY == StrV(<<"L", "E", "F", "T">>)
RIGHT_KEY == StrV(<<"R", "I", "G", "H", "T">>)

get_value_abbrev(value) ==
    IF value = None THEN None
    ELSE IF TypeOf(value) \in DOMAIN TYPE_ABBREVIATIONS THEN TYPE_ABBREVIATIONS[TypeOf(value)]
    ELSE value

\* STR_FORMAT.format(left, right)
StrFormat(left, right) == StrV(PyStr(left) \o <<" ", "|", " ">> \o PyStr(right))

\* the functions of class DeltaOutput, by name; is_dif is any value, read by
\* its truth value
DeltaOutput(name, is_dif, left, right) ==
    CASE name = "no_flag_tuple_abbrev" ->
            IF Truthy(is_dif) THEN TupleV(<<get_value_abbrev(left), get_value_abbrev(right)>>) ELSE None
      [] name = "as_tuple" -> TupleV(<<is_dif, left, right>>)
      [] name = "type_included" ->
            TupleV(<<is_dif, left, right, <<"type", TypeOf(left)>>, <<"type", TypeOf(right)>>>>)
      [] name = "as_none_or_str_raw" ->
            IF Truthy(is_dif) THEN StrFormat(left, right) ELSE None
      [] name = "as_none_or_str" ->
            IF Truthy(is_dif) THEN StrFormat(get_value_abbrev(left), get_value_abbrev(right)) ELSE None
      [] name = "as_none_or_dict_raw" ->
            IF Truthy(is_dif) THEN DictV((LEFT_KEY :> left) @@ (RIGHT_KEY :> right)) ELSE None
      [] name = "as_none_or_dict" ->
            IF Truthy(is_dif)
            THEN DictV((LEFT_KEY :> get_value_abbrev(left)) @@ (RIGHT_KEY :> get_value_abbrev(right)))
            ELSE None

\* Output_Buffer as the module defines it: the table before any set_output
Output_Buffer ==
    (OutputDefault :> "no_flag_tuple_abbrev") @@
    (OutputWithFlag :> "as_tuple") @@
    (OutputAllDetails :> "type_included") @@
    (OutputNoneOrDict :> "as_none_or_dict") @@
    (OutputNoneOrDictRaw :> "as_none_or_dict_raw") @@
    (OutputDeltaAsStr :> "as_none_or_str") @@
    (OutputNoneOrStrRaw :> "as_none_or_str_raw")

\* set_output registering under every bit of the configuration
set_output_unmasked(buffer, config, output) ==
    [k \in DOMAIN buffer \cup {config} |-> IF k = config THEN output ELSE buffer[k]]

\* set_output(config, output): what it returns, the function registered
\* before under the output bits, or None
old_output(buffer, config) ==
    IF BitAnd(config, OutputFormatMask) \in DOMAIN buffer
    THEN <<"function", buffer[BitAnd(config, OutputFormatMask)]>>
    ELSE None

\* set_output(config, output): the table after the registration
set_output(buffer, config, output) ==
    [k \in DOMAIN buffer \cup {BitAnd(config, OutputFormatMask)} |->
        IF k = BitAnd(config, OutputFormatMask) THEN output ELSE buffer[k]]

\* a get_output that falls back to the default formatter for a combination
\* of output bits that is not registered
get_output_defaulting(config) ==
    <<"output", [fn |-> IF BitAnd(config, OutputFormatMask) \in DOMAIN output_buffer
                        THEN output_buffer[BitAnd(config, OutputFormatMask)]
                        ELSE output_buffer[OutputDefault],
                 abbrev |-> ~matches(config, OutputKeepAllDetails, 0)]>>

\* get_output(config): the registered function, wrapped to abbreviate both
\* values unless OutputKeepAllDetails is set; TypeError when none is registered
get_output(config) ==
    LET output_config == BitAnd(config, OutputFormatMask)
    IN  IF output_config \notin DOMAIN output_buffer THEN Raise("TypeError")
        ELSE <<"output", [fn |-> output_buffer[output_config],
                          abbrev |-> ~matches(config, OutputKeepAllDetails, 0)]>>

\* calling the function get_output returned
CallOutput(output, is_dif, left, right) ==
    DeltaOutput(output[2].fn, is_dif,
                IF output[2].abbrev THEN get_value_abbrev(left) ELSE left,
                IF output[2].abbrev THEN get_value_abbrev(right) ELSE right)

-----------------------------------------------------------------------------
(* Typed comparators (comparator.py)                                        *)

NotImplemented == <<"NotImplemented", 0>>
DEFAULT_FLOAT_PRECISION == 2

RECURSIVE DigitsValue(_)
\* the number a run of decimal digits writes
DigitsValue(s) ==
    IF s = <<>> THEN 0
    ELSE 10 * DigitsValue(SubSeq(s, 1, Len(s) - 1))
            + (CHOOSE d \in 0..9 : Digits[d + 1] = s[Len(s)])

\* the number a decimal literal writes, in units of 10^-FracDigits: digits,
\* a point, digits, either run of digits possibly empty
DecimalValue(s) ==
    LET point == IF \E i \in 1..Len(s) : s[i] = "." THEN CHOOSE i \in 1..Len(s) : s[i] = "." ELSE Len(s) + 1
        frac == SubSeq(s, point + 1, Len(s))
    IN  DigitsValue(SubSeq(s, 1, point - 1)) * Pow10(FracDigits)
            + DigitsValue(frac) * Pow10(FracDigits - Len(frac))

\* float(value) for the modelled values: a number; a str that, blanks
\* stripped, is a decimal literal of at most FracDigits digits after the
\* point, or nan in any case; ValueError for any other str and TypeError for a
\* value that is no number and no str. Signs, exponents, underscores and
\* infinities are not modelled.
ToFloat(value) ==
    CASE value[1] \in {"bool", "int", "float", "Decimal"} -> FloatV(Scaled(value))
      [] value[1] = "nan" -> value
      [] value[1] = "str" ->
            LET t == strip(value[2])
            IN  IF casefold(t) = <<"n", "a", "n">> THEN NaN
                ELSE IF /\ \A i \in 1..Len(t) : t[i] = "." \/ \E d \in 1..10 : Digits[d] = t[i]
                        /\ Cardinality({i \in 1..Len(t) : t[i] = "."}) <= 1
                        /\ \E i \in 1..Len(t) : t[i] # "."
                THEN FloatV(DecimalValue(t))
                ELSE Raise("ValueError")
      [] OTHER -> Raise("TypeError")

RECURSIVE TwoPowMod(_, _)
\* 2^k modulo m
TwoPowMod(k, m) == IF k = 0 THEN 1 % m ELSE (2 * TwoPowMod(k - 1, m)) % m

RECURSIVE BinaryExponent(_, _)
\* the binary exponent of the decimal n / unit, n > 0: the e with
\* 2^e <= n / unit < 2^(e+1)
BinaryExponent(n, unit) ==
    IF n < unit THEN BinaryExponent(2 * n, unit) - 1
    ELSE IF n >= 2 * unit THEN BinaryExponent(n, 2 * unit) + 1
    ELSE 0

\* is the double nearest to n / 10^FracDigits below that decimal: its 53-bit
\* mantissa is n * 2^k / 10^FracDigits rounded, k = 52 - exponent, and the
\* double is below when the remainder of the division is less than a half
DoubleIsBelow(n) ==
    LET unit == Pow10(FracDigits)
        k == 52 - BinaryExponent(n, unit)
    IN  ((n % unit) * TwoPowMod(k, unit)) % unit < unit \div 2

\* the double rounded to precision digits, as the integer of its digits: ties
\* go to the even digit when the double is exactly the decimal, and where the
\* double lies otherwise
RoundedDigits(n, precision) ==
    IF precision >= FracDigits THEN n * Pow10(precision - FracDigits)
    ELSE LET unit == Pow10(FracDigits - precision)
             q == n \div unit
             r == n % unit
         IN  IF 2 * r < unit THEN q
             ELSE IF 2 * r > unit THEN q + 1
             ELSE IF IsExact(FloatV(n)) THEN (IF q % 2 = 0 THEN q ELSE q + 1)
             ELSE IF DoubleIsBelow(n) THEN q ELSE q + 1

\* "{:.<precision>f}".format(f_value), f_value being what float(value) gave
FormatFloat(f_value, precision) ==
    IF IsRaise(f_value) THEN f_value
    ELSE IF f_value = NaN THEN StrV(<<"n", "a", "n">>)
    ELSE StrV(IntStr(RoundedDigits(f_value[2], precision) \div Pow10(precision))
              \o (IF precision = 0 THEN <<>>
                  ELSE <<".">> \o PadDigits(RoundedDigits(f_value[2], precision), precision)))

\* as_float_str(value, precision)
as_float_str(value, precision) == FormatFloat(ToFloat(value), precision)

\* a == b of two operands evaluated from left to right: the first that raised
\* is what the expression raises
EqualOperands(a, b) == IF IsRaise(a) THEN a ELSE IF IsRaise(b) THEN b ELSE BoolV(a = b)

\* the comparison of the two floats themselves, whatever the precision
compare_number_unrounded(l, r, precision) == EqualOperands(ToFloat(l), ToFloat(r))

\* compare_number_with_precision(lhs, rhs, precision)
compare_number_with_precision(l, r, precision) ==
    EqualOperands(as_float_str(l, precision), as_float_str(r, precision))

\* compare_any_with_none(value): not value
compare_any_with_none(value) == BoolV(~Truthy(value))

\* Comparator.compare_with_none(lhs, rhs)
compare_with_none(l, r) ==
    IF l = None /\ r = None THEN BoolV(TRUE)
    ELSE IF l = None THEN compare_any_with_none(r)
    ELSE IF r = None THEN compare_any_with_none(l)
    ELSE Raise("ValueError")

TRUE_VALUES ==
    {BoolV(TRUE), IntV(1), StrV(<<"T", "r", "u", "e">>), StrV(<<"Y", "e", "s">>), StrV(<<"Y">>),
     StrV(<<"P", "o", "s", "i", "t", "i", "v", "e">>), StrV(<<"T", "R", "U", "E">>),
     StrV(<<"y", "e", "s">>)}
FALSE_VALUES ==
    {BoolV(FALSE), IntV(0), StrV(<<"F", "a", "l", "s", "e">>), StrV(<<"N", "o">>), StrV(<<"N">>),
     StrV(<<"N", "e", "g", "a", "t", "i", "v", "e">>), StrV(<<"F", "A", "L", "S", "E">>),
     StrV(<<"n", "o">>)}

\* Comparator.as_bool(value)
as_bool(value) ==
    IF value \in TRUE_VALUES THEN BoolV(TRUE)
    ELSE IF value \in FALSE_VALUES THEN BoolV(FALSE)
    ELSE Raise("ValueError")

\* datetime(year, month, day, hour, minute, second)
DatetimeV(year, month, day, hour, minute, second) ==
    <<"datetime", <<year, month, day, hour, minute, second>>>>

\* a format whose date is followed by ' %H:%M:%S', and one of the date alone
DateTimeFormat(first, sep, second, third) ==
    <<first, sep, second, sep, third, " ", "%H", ":", "%M", ":", "%S">>
DateFormat(first, sep, second, third) == <<first, sep, second, sep, third>>

\* Comparator.DATETIME_FORMATS, each format as its directives and literals
DATETIME_FORMATS ==
    <<DateTimeFormat("%d", "-", "%m", "%Y"), DateTimeFormat("%d", "-", "%b", "%Y"),
      DateTimeFormat("%d", "/", "%m", "%Y"), DateTimeFormat("%d", "/", "%b", "%Y"),
      DateTimeFormat("%Y", "-", "%m", "%d"), DateTimeFormat("%Y", "-", "%b", "%d"),
      DateTimeFormat("%Y", "/", "%m", "%d"), DateTimeFormat("%Y", "/", "%b", "%d"),
      DateFormat("%Y", "-", "%B", "%d"), DateFormat("%Y", " ", "%B", "%d"),
      DateFormat("%Y", "/", "%B", "%d"), DateFormat("%Y", "-", "%b", "%d"),
      DateFormat("%Y", " ", "%b", "%d"), DateFormat("%Y", "/", "%b", "%d"),
      DateFormat("%d", "/", "%m", "%Y"), DateFormat("%d", "/", "%m", "%y"),
      DateFormat("%d", "/", "%b", "%Y"), DateFormat("%d", "/", "%b", "%y"),
      DateFormat("%Y", "-", "%m", "%d"), DateFormat("%Y", " ", "%m", "%d"),
      DateFormat("%d", "-", "%m", "%Y"), DateFormat("%d", "-", "%m", "%y"),
      DateFormat("%d", "-", "%b", "%Y"), DateFormat("%d", "-", "%b", "%y")>>

\* the month names of %B and their abbreviations of %b, matched in any case
MonthNames ==
    <<<<"j", "a", "n", "u", "a", "r", "y">>, <<"f", "e", "b", "r", "u", "a", "r", "y">>,
      <<"m", "a", "r", "c", "h">>, <<"a", "p", "r", "i", "l">>, <<"m", "a", "y">>,
      <<"j", "u", "n", "e">>, <<"j", "u", "l", "y">>, <<"a", "u", "g", "u", "s", "t">>,
      <<"s", "e", "p", "t", "e", "m", "b", "e", "r">>, <<"o", "c", "t", "o", "b", "e", "r">>,
      <<"n", "o", "v", "e", "m", "b", "e", "r">>, <<"d", "e", "c", "e", "m", "b", "e", "r">>>>

\* the name of month m, cut to n letters when n > 0
MonthName(m, n) == IF n > 0 THEN SubSeq(MonthNames[m], 1, n) ELSE MonthNames[m]

\* the month whose name of n letters is the text; -1 for none
MonthNamed(t, n) ==
    IF \E m \in 1..12 : casefold(t) = MonthName(m, n)
    THEN CHOOSE m \in 1..12 : casefold(t) = MonthName(m, n)
    ELSE -1

\* all the characters of the text are digits
AllDigits(t) == \A i \in 1..Len(t) : \E d \in 1..10 : Digits[d] = t[i]

\* the number of one or two digits when it is within the range, -1 otherwise
TwoDigits(t, low, high) ==
    IF Len(t) \in 1..2 /\ AllDigits(t) /\ DigitsValue(t) \in low..high
    THEN DigitsValue(t)
    ELSE -1

\* the value a directive of strptime reads from the text of its field, -1
\* when the text does not match the directive
FieldValue(directive, t) ==
    CASE directive = "%Y" -> IF Len(t) = 4 /\ AllDigits(t) THEN DigitsValue(t) ELSE -1
      [] directive = "%y" ->
            IF Len(t) = 2 /\ AllDigits(t)
            THEN (IF DigitsValue(t) <= 68 THEN 2000 ELSE 1900) + DigitsValue(t)
            ELSE -1
      [] directive = "%m" -> TwoDigits(t, 1, 12)
      [] directive = "%d" ->
            IF Len(t) = 2 /\ t[1] = " " THEN TwoDigits(Tail(t), 1, 9) ELSE TwoDigits(t, 1, 31)
      [] directive = "%H" -> TwoDigits(t, 0, 23)
      [] directive = "%M" -> TwoDigits(t, 0, 59)
      [] directive = "%S" -> TwoDigits(t, 0, 61)
      [] directive = "%b" -> MonthNamed(t, 3)
      [] directive = "%B" -> MonthNamed(t, 0)

\* the place of the directive's value among year, month, day, hour, minute
\* and second
FieldSlot(directive) ==
    CASE directive \in {"%Y", "%y"} -> 1
      [] directive \in {"%m", "%b", "%B"} -> 2
      [] directive = "%d" -> 3
      [] directive = "%H" -> 4
      [] directive = "%M" -> 5
      [] directive = "%S" -> 6

\* the characters a field takes: up to the next separator; a day may begin
\* with one blank
FieldLength(directive, s) ==
    IF directive = "%d" /\ Len(s) >= 2 /\ s[1] = " " THEN 2
    ELSE IF \E i \in 1..Len(s) : s[i] \in {"-", "/", ":", " "}
    THEN SetMin({i \in 1..Len(s) : s[i] \in {"-", "/", ":", " "}}) - 1
    ELSE Len(s)

\* the text without its leading blanks
SkipBlanks(s) ==
    IF \E i \in 1..Len(s) : s[i] # " "
    THEN SubSeq(s, SetMin({i \in 1..Len(s) : s[i] # " "}), Len(s))
    ELSE <<>>

RECURSIVE ParseFields(_, _, _)
\* the fields with the value of the first directive of the format, read from
\* the first n characters, and those of the rest; <<>> when the text does not
\* match
ReadField(fmt, s, fields, n) ==
    IF FieldValue(fmt[1], SubSeq(s, 1, n)) < 0 THEN <<>>
    ELSE ParseFields(Tail(fmt), SubSeq(s, n + 1, Len(s)),
                     [fields EXCEPT ![FieldSlot(fmt[1])] = FieldValue(fmt[1], SubSeq(s, 1, n))])

\* the match of the text with the format: a blank of the format matches one
\* or more blanks, another literal itself, and no text may remain
ParseFields(fmt, s, fields) ==
    IF fmt = <<>> THEN (IF s = <<>> THEN fields ELSE <<>>)
    ELSE IF fmt[1] = " "
    THEN (IF s # <<>> /\ s[1] = " " THEN ParseFields(Tail(fmt), SkipBlanks(s), fields) ELSE <<>>)
    ELSE IF fmt[1] \in {"-", "/", ":"}
    THEN (IF s # <<>> /\ s[1] = fmt[1] THEN ParseFields(Tail(fmt), Tail(s), fields) ELSE <<>>)
    ELSE ReadField(fmt, s, fields, FieldLength(fmt[1], s))

\* the days of the month of the year
DaysIn(month, year) ==
    IF month = 2
    THEN (IF year % 4 = 0 /\ (year % 100 # 0 \/ year % 400 = 0) THEN 29 ELSE 28)
    ELSE IF month \in {4, 6, 9, 11} THEN 30 ELSE 31

\* the datetime of the fields, ValueError when there is no such datetime
DatetimeOf(fields) ==
    IF fields = <<>> THEN Raise("ValueError")
    ELSE IF fields[1] < 1 \/ fields[3] > DaysIn(fields[2], fields[1]) \/ fields[6] > 59
    THEN Raise("ValueError")
    ELSE <<"datetime", fields>>

\* datetime.strptime(value, format): the fields not given are those of
\* 1900-01-01 00:00:00
strptime(s, fmt) == DatetimeOf(ParseFields(fmt, s, <<1900, 1, 1, 0, 0, 0>>))

\* the formats of DATETIME_FORMATS the str parses under
FormatsOf(s) ==
    {i \in 1..Len(DATETIME_FORMATS) : ~IsRaise(strptime(s, DATETIME_FORMATS[i]))}

\* Comparator.as_datetime(value), CUSTOM_TO_DATETIME being None: the datetime
\* of the first format the str parses under
as_datetime(value) ==
    IF IsStr(value)
    THEN (IF FormatsOf(value[2]) # {}
          THEN strptime(value[2], DATETIME_FORMATS[SetMin(FormatsOf(value[2]))])
          ELSE Raise("ValueError"))
    ELSE IF value[1] = "datetime" THEN value
    ELSE Raise("ValueError")

\* the comparison of a datetime with the conversion of a str
DatetimeEquals(other, converted) ==
    IF IsRaise(converted) THEN converted ELSE BoolV(other = converted)

\* compare_datetime_with_str that finds a str it cannot convert different
compare_datetime_with_str_lenient(other, str_value) ==
    IF IsRaise(as_datetime(str_value)) THEN BoolV(FALSE)
    ELSE BoolV(other = as_datetime(str_value))

\* compare_datetime_with_str(other, str_value): other == as_datetime(str_value)
compare_datetime_with_str(other, str_value) ==
    DatetimeEquals(other, as_datetime(str_value))

\* compare_bool_with_str that finds a str it cannot convert different
compare_bool_with_str_lenient(other, str_value) ==
    IF IsRaise(as_bool(str_value)) THEN BoolV(FALSE)
    ELSE BoolV(IF other[1] = "int" THEN other[2] = (IF as_bool(str_value)[2] THEN 1 ELSE 0)
               ELSE other = as_bool(str_value))

\* compare_bool_with_str(other, str_value): other == as_bool(str_value)
compare_bool_with_str(other, str_value) ==
    LET b == as_bool(str_value)
    IN  IF IsRaise(b) THEN b
        ELSE BoolV(IF other[1] = "int" THEN other[2] = (IF b[2] THEN 1 ELSE 0) ELSE other = b)

\* compare_any_with_str(other, str_value), dispatched on type(other)
compare_any_with_str(other, str_value) ==
    IF TypeOf(other) = "bool" THEN compare_bool_with_str(other, str_value)
    ELSE IF TypeOf(other) = "datetime" THEN compare_datetime_with_str(other, str_value)
    ELSE IF TypeOf(other) \in {"int", "float", "Decimal"}
    THEN compare_number_with_precision(other, str_value, DEFAULT_FLOAT_PRECISION)
    ELSE BoolV(PyStr(other) = str_value[2])

\* Comparator.compare_with_str(lhs, rhs)
compare_with_str(l, r) ==
    IF IsStr(l) THEN compare_any_with_str(r, l)
    ELSE IF IsStr(r) THEN compare_any_with_str(l, r)
    ELSE Raise("ValueError")

\* the comparator functions, by name; probe_a and probe_b are comparators of
\* the caller that return their name and their arguments as they got them
CallComparator(name, l, r) ==
    CASE name = "with_precision(0)" -> compare_number_with_precision(l, r, 0)
      [] name = "compare_number_with_precision" ->
            compare_number_with_precision(l, r, DEFAULT_FLOAT_PRECISION)
      [] name = "compare_bool_with_str" -> compare_bool_with_str(l, r)
      [] name = "compare_with_str" -> compare_with_str(l, r)
      [] name = "compare_with_none" -> compare_with_none(l, r)
      [] name = "lambda: False" -> BoolV(FALSE)
      [] name = "lambda: not lhs and not rhs" -> BoolV(~Truthy(l) /\ ~Truthy(r))
      [] name \in {"probe_a", "probe_b"} -> TupleV(<<StrV(<<name>>), l, r>>)

\* DEFAULT_TYPE_COMPARATOR: keyed by a pair of types or by a single type
DEFAULT_TYPE_COMPARATOR ==
    (<<"int", "float">> :> "with_precision(0)") @@
    (<<"int", "Decimal">> :> "with_precision(0)") @@
    (<<"int", "str">> :> "with_precision(0)") @@
    (<<"Decimal", "float">> :> "compare_number_with_precision") @@
    (<<"Decimal", "str">> :> "compare_number_with_precision") @@
    (<<"float", "str">> :> "compare_number_with_precision") @@
    (<<"bool", "str">> :> "compare_bool_with_str") @@
    (<<"str">> :> "compare_with_str") @@
    (<<"str", "NoneType">> :> "compare_with_str") @@
    (<<"NoneType">> :> "compare_with_none")

\* the lookup with the right side's entries tried before the left side's
TypedComparator_right_first(l_type, r_type, comparators) ==
    IF <<r_type, l_type>> \in DOMAIN comparators THEN <<comparators[<<r_type, l_type>>], TRUE>>
    ELSE IF <<l_type, r_type>> \in DOMAIN comparators THEN <<comparators[<<l_type, r_type>>], FALSE>>
    ELSE IF <<r_type>> \in DOMAIN comparators THEN <<comparators[<<r_type>>], TRUE>>
    ELSE IF <<l_type>> \in DOMAIN comparators THEN <<comparators[<<l_type>>], FALSE>>
    ELSE <<"", FALSE>>

\* the lookup of the ordered pair as given only, and of the single types
TypedComparator_no_reverse(l_type, r_type, comparators) ==
    IF <<l_type, r_type>> \in DOMAIN comparators THEN <<comparators[<<l_type, r_type>>], FALSE>>
    ELSE IF <<l_type>> \in DOMAIN comparators THEN <<comparators[<<l_type>>], FALSE>>
    ELSE IF <<r_type>> \in DOMAIN comparators THEN <<comparators[<<r_type>>], TRUE>>
    ELSE <<"", FALSE>>

\* the branch are_equal takes for two types: the comparator registered and
\* whether it is called with the operands swapped; "" when none is registered
TypedComparator(l_type, r_type, comparators) ==
    IF <<l_type, r_type>> \in DOMAIN comparators THEN <<comparators[<<l_type, r_type>>], FALSE>>
    ELSE IF <<r_type, l_type>> \in DOMAIN comparators THEN <<comparators[<<r_type, l_type>>], TRUE>>
    ELSE IF <<l_type>> \in DOMAIN comparators THEN <<comparators[<<l_type>>], FALSE>>
    ELSE IF <<r_type>> \in DOMAIN comparators THEN <<comparators[<<r_type>>], TRUE>>
    ELSE <<"", FALSE>>

\* the return statement of the branch taken
CallTyped(found, l, r) ==
    IF found[1] # ""
    THEN CallComparator(found[1], IF found[2] THEN r ELSE l, IF found[2] THEN l ELSE r)
    ELSE IF TypeOf(l) # TypeOf(r) \/ IsCollection(l) THEN NotImplemented
    ELSE BoolV(PyEq(l, r))

\* comparators or dict(DEFAULT_TYPE_COMPARATOR): an empty table is falsy
OrDefault(comparators) ==
    IF DOMAIN comparators = {} THEN default_type_comparator ELSE comparators

\* are_equal that falls back on lhs == rhs whenever nothing is registered
are_equal_native(l, r, comparators) ==
    IF TypedComparator(TypeOf(l), TypeOf(r), OrDefault(comparators))[1] # ""
    THEN CallTyped(TypedComparator(TypeOf(l), TypeOf(r), OrDefault(comparators)), l, r)
    ELSE BoolV(PyEq(l, r))

\* are_equal(lhs, rhs, comparators): a bool, NotImplemented, or a raise
are_equal(l, r, comparators) ==
    CallTyped(TypedComparator(TypeOf(l), TypeOf(r), OrDefault(comparators)), l, r)

\* the table of a clear flag, whatever the flag
with_comparators_flag_clear(none_dif_default) ==
    [k \in DOMAIN default_type_comparator \cup {<<"str", "NoneType">>} |->
        IF k = <<"str", "NoneType">> THEN "lambda: not lhs and not rhs"
        ELSE default_type_comparator[k]]

\* with_comparators that copies nothing: the engine looks the default table up
\* at every comparison
with_comparators_uncopied(none_dif_default) == <<>>

\* with_comparators(None, none_dif_default): the table the engine compares
\* with, a copy of the default table as it is at the call with the entry of
\* (str, NoneType) replaced; KeyError when the entry of NoneType to delete is
\* not there
with_comparators(none_dif_default) ==
    IF none_dif_default
    THEN (IF <<"NoneType">> \notin DOMAIN default_type_comparator THEN Raise("KeyError")
          ELSE [k \in (DOMAIN default_type_comparator \ {<<"NoneType">>}) \cup {<<"str", "NoneType">>} |->
                    IF k = <<"str", "NoneType">> THEN "lambda: False" ELSE default_type_comparator[k]])
    ELSE [k \in DOMAIN default_type_comparator \cup {<<"str", "NoneType">>} |->
            IF k = <<"str", "NoneType">> THEN "lambda: not lhs and not rhs"
            ELSE default_type_comparator[k]]

-----------------------------------------------------------------------------
(* Key normalisation and matching (core.py)                                 *)

DEFAULT_FLOAT_NUMBER_DIGITS == 2

\* the abbreviated month names of %b as strftime writes them
MonthAbbr ==
    <<<<"J", "a", "n">>, <<"F", "e", "b">>, <<"M", "a", "r">>, <<"A", "p", "r">>,
      <<"M", "a", "y">>, <<"J", "u", "n">>, <<"J", "u", "l">>, <<"A", "u", "g">>,
      <<"S", "e", "p">>, <<"O", "c", "t">>, <<"N", "o", "v">>, <<"D", "e", "c">>>>

\* date_key.strftime(DeepDelta.DEFAULT_DATE_FORMAT), the format being '%Y-%b-%d'
strftime(d) == PadDigits(d[1], 4) \o <<"-">> \o MonthAbbr[d[2]] \o <<"-">> \o PadDigits(d[3], 2)

\* "{:.<precision>f}".format of a Decimal: rounded on its decimal digits, ties
\* to the even digit
FormatDecimal(n, precision) ==
    LET unit == Pow10(FracDigits - precision)
        q == n \div unit
        r == n % unit
        rounded == IF 2 * r < unit THEN q
                   ELSE IF 2 * r > unit THEN q + 1
                   ELSE IF q % 2 = 0 THEN q ELSE q + 1
    IN  StrV(IntStr(rounded \div Pow10(precision)) \o <<".">> \o PadDigits(rounded, precision))

RECURSIVE normalize(_, _, _)
\* normalize(key, case_ignored, space_trimmed): a str, or a tuple of them
normalize(key, ci, st) ==
    CASE key[1] = "tuple" ->
            TupleV([i \in 1..Len(key[2]) |-> normalize(key[2][i], ci, st)])
      [] key[1] = "str" ->
            LET cased_key == IF ci THEN casefold(key[2]) ELSE key[2]
            IN  StrV(IF st THEN strip(cased_key) ELSE cased_key)
      [] key[1] = "datetime" -> normalize(StrV(strftime(key[2])), ci, st)
      [] key[1] \in {"float", "nan"} -> FormatFloat(key, DEFAULT_FLOAT_NUMBER_DIGITS)
      [] key[1] = "Decimal" -> FormatDecimal(key[2], DEFAULT_FLOAT_NUMBER_DIGITS)
      [] OTHER -> normalize(StrV(PyStr(key)), ci, st)

\* a key_matches that compares a partial path with the whole key path
key_matches_str_whole(key, path, ci) ==
    IF \A i \in 1..Len(key) : key[i] # PATH_SEPARATOR
    THEN LET last_key == LastSplit(path)
         IN  IF ci THEN casefold(key) = casefold(last_key) ELSE key = last_key
    ELSE IF ci THEN casefold(key) = casefold(path) ELSE key = path

\* key_matches registered for str: the three shapes of a literal specifier
key_matches_str(key, path, ci) ==
    IF \A i \in 1..Len(key) : key[i] # PATH_SEPARATOR
    THEN LET last_key == LastSplit(path)
         IN  IF ci THEN casefold(key) = casefold(last_key) ELSE key = last_key
    ELSE IF key[1] = PATH_SEPARATOR
    THEN IF ci THEN casefold(key) = casefold(path) ELSE key = path
    ELSE IF ci THEN endswith(casefold(path), casefold(key)) ELSE endswith(path, key)

\* a pattern match that folds case when case_ignored is passed
key_matches_pattern_folded(pattern, path, ci) ==
    MatchFrom(pattern[2].toks, path, pattern[2].ic \/ ci)

\* key_matches registered for re.Pattern: case_ignored is neglected
key_matches_pattern(pattern, path, ci) == fullmatch(pattern, path)

RECURSIVE key_matches(_, _, _)
\* key_matches(kp, key_path, case_ignored), dispatched on type(kp); the default
\* implementation dispatches again on str(kp). key_path is a str value, or,
\* when matched_keys passes a normalized tuple key, a tuple value, on which the
\* str methods and re.fullmatch raise.
key_matches(k, path, ci) ==
    CASE k[1] = "tuple" -> BoolV(normalize(k, ci, FALSE) = path)
      [] k[1] = "pattern" ->
            IF IsStr(path) THEN BoolV(key_matches_pattern(k, path[2], ci)) ELSE Raise("TypeError")
      [] k[1] = "str" ->
            IF IsStr(path) THEN BoolV(key_matches_str(k[2], path[2], ci))
            ELSE IF (\E i \in 1..Len(k[2]) : k[2][i] = PATH_SEPARATOR)
                    /\ k[2][1] = PATH_SEPARATOR /\ ~ci
            THEN BoolV(FALSE)
            ELSE Raise("AttributeError")
      [] OTHER -> key_matches(StrV(PyStr(k)), path, ci)

-----------------------------------------------------------------------------
(* Sequence alignment (core.py)                                             *)

MISSING == StrV(<<"M", "I", "S", "S", "I", "N", "G">>)

IsTrue(v) == v = BoolV(TRUE)

\* matched_keys finding only the key written exactly as the normalized key
matched_keys_exact(key, all_keys, ci, st) == {k \in all_keys : k = key}

\* matched_keys(key_path, all_keys, case_ignored, space_trimmed): the keys of
\* all_keys that match the normalized key, as a set; the list the code builds
\* holds them in the iteration order of all_keys
matched_keys(key, all_keys, ci, st) ==
    UNION {{k \in all_keys : IsTrue(key_matches(k, key_path, ci))} : key_path \in {normalize(key, ci, st)}}

\* does some key_matches call made by matched_keys raise
matched_keys_raises(key, all_keys, ci, st) ==
    \E key_path \in {normalize(key, ci, st)} : \E k \in all_keys : IsRaise(key_matches(k, key_path, ci))

\* key_denoted_by_id(name, case_ignored)
key_denoted_by_id(name, ci) ==
    \E name_str \in {normalize(name, ci, TRUE)[2]} :
        \/ endswith(name_str, <<"i", "d">>)
        \/ Len(name_str) >= 2 /\ SubSeq(name_str, 1, 2) = <<"i", "d">>

\* get_matched_keys(candidates, is_key, case_ignored, *keys); is_key is
\* key_denoted_by_id or None
get_matched_keys(candidates, is_key, ci, keys) ==
    IF keys # {} THEN {k \in candidates : matched_keys(k, keys, ci, TRUE) # {}}
    ELSE IF is_key THEN {k \in candidates : key_denoted_by_id(k, ci)}
    ELSE {}

\* list(seq): the characters of a str are its items
Items(seq) == IF IsStr(seq) THEN [i \in 1..Len(seq[2]) |-> StrV(<<seq[2][i]>>)] ELSE seq[2]

\* guess_keys(seq, is_key, case_ignored, *keys): <<"set", S>>, or <<"dict", {}>>
\* for the empty dict literal it returns for items of several types;
\* key_denoted_by_id raises AttributeError on a tuple key, whose normalized
\* form is a tuple and has no endswith
guess_keys(seq, is_key, ci, keys) ==
    LET items == Items(seq)
        item_types == {TypeOf(items[i]) : i \in 1..Len(items)}
        shared_keys == IF IsMapping(items[1])
                       THEN {k \in DOMAIN items[1][2] :
                                \A i \in 1..Len(items) : k \in DOMAIN items[i][2]}
                       ELSE {}
    IN  IF Len(items) = 0 THEN <<"set", keys>>
        ELSE IF Cardinality(item_types) # 1 THEN <<"dict", {}>>
        ELSE IF keys = {} /\ is_key /\ \E k \in shared_keys : k[1] = "tuple" THEN Raise("AttributeError")
        ELSE <<"set", get_matched_keys(shared_keys, is_key, ci, keys)>>

CharOrder ==
    <<" ", "'", "(", ")", ",", ".", "0", "1", "2", "3", "4", "5", "6", "7", "8", "9", ":", "<", ">",
      "A", "B", "C", "D", "E", "F", "G", "H", "I", "J", "K", "L", "M", "N", "O", "P", "Q", "R", "S",
      "T", "U", "V", "W", "X", "Y", "Z", "[", "]", "a", "b", "c", "d", "e", "f", "g", "h", "i", "j",
      "k", "l", "m", "n", "o", "p", "q", "r", "s", "t", "u", "v", "w", "x", "y", "z", "{", "|", "}">>
CharCode(c) == CHOOSE i \in 1..Len(CharOrder) : CharOrder[i] = c

\* a < b for two str, by code point
StrLess(a, b) ==
    \E n \in 0..Len(a) :
        /\ n <= Len(b)
        /\ SubSeq(a, 1, n) = SubSeq(b, 1, n)
        /\ \/ n = Len(a) /\ n < Len(b)
           \/ n < Len(a) /\ n < Len(b) /\ CharCode(a[n + 1]) < CharCode(b[n + 1])

RECURSIVE SortedKeys(_)
\* keys.sort() on a list of distinct str keys
SortedKeys(S) ==
    IF S = {} THEN <<>>
    ELSE LET m == CHOOSE x \in S : \A y \in S \ {x} : StrLess(x[2], y[2])
         IN  <<m>> \o SortedKeys(S \ {m})

\* the position as the index, whatever the keys
IndexOf_position(items, i, keys) == StrV(IntStr(i - 1))

\* the index sequence_to_dict gives the item at position i: the position as a
\* str when there are no keys, the value of the one key, or the tuple of the
\* values of the keys
IndexOf(items, i, keys) ==
    IF Len(keys) = 0 THEN StrV(IntStr(i - 1))
    ELSE IF Len(keys) = 1 THEN items[i][2][keys[1]]
    ELSE TupleV([j \in 1..Len(keys) |-> items[i][2][keys[j]]])

\* a value that cannot be the key of a dict
Unhashable(v) ==
    \/ v[1] \in {"dict", "list"}
    \/ v[1] = "tuple" /\ \E j \in 1..Len(v[2]) : v[2][j][1] \in {"dict", "list"}

\* the positions whose index is equal, as a key of a dict, to that of i
SameIndex(items, i, keys) ==
    {j \in 1..Len(items) : SameOrEqual(IndexOf(items, j, keys), IndexOf(items, i, keys))}

\* the dict comprehension keeping the first item of every index
IndexedBy_first(items, keys) ==
    IF Len(items) = 0 THEN Raise("IndexError")
    ELSE IF \E i \in 1..Len(items) : Unhashable(IndexOf(items, i, keys)) THEN Raise("TypeError")
    ELSE DictV([v \in {IndexOf(items, SetMin(SameIndex(items, i, keys)), keys) : i \in 1..Len(items)} |->
                    items[SetMin({i \in 1..Len(items) : SameOrEqual(IndexOf(items, i, keys), v)})]])

\* the dict comprehension of sequence_to_dict over the items and the keys: an
\* index equal to an earlier one keeps the key of the first item and takes
\* the item that comes last
IndexedBy(items, keys) ==
    IF Len(items) = 0 THEN Raise("IndexError")
    ELSE IF \E i \in 1..Len(items) : Unhashable(IndexOf(items, i, keys)) THEN Raise("TypeError")
    ELSE DictV([v \in {IndexOf(items, SetMin(SameIndex(items, i, keys)), keys) : i \in 1..Len(items)} |->
                    items[SetMax({i \in 1..Len(items) : SameOrEqual(IndexOf(items, i, keys), v)})]])

\* sequence_to_dict with every item indexed by its position, whatever the keys
sequence_to_dict_by_position(seq, is_key, ci, keys_arg) ==
    LET items == Items(seq)
    IN  IF Len(items) = 0 THEN Raise("IndexError")
        ELSE DictV([v \in {StrV(IntStr(i - 1)) : i \in 1..Len(items)} |->
                        items[CHOOSE i \in 1..Len(items) : StrV(IntStr(i - 1)) = v]])

\* sequence_to_dict(seq, is_key, case_ignored, *keys): a later item replaces an
\* earlier one of the same index; IndexError on an empty sequence, TypeError
\* when an index value is unhashable
sequence_to_dict(seq, is_key, ci, keys_arg) ==
    CHOOSE converted \in
        UNION {IF IsRaise(guessed) THEN {guessed}
               ELSE {IndexedBy(items, keys) : items \in {Items(seq)}, keys \in {SortedKeys(guessed[2])}} :
                    guessed \in {guess_keys(seq, is_key, ci, keys_arg)}} : TRUE

-----------------------------------------------------------------------------
(* class DeepDelta (core.py)                                                *)

\* the caller's named comparators, functions of (lhs, rhs, key_path), by name;
\* probe_a and probe_b return their name and their arguments
CallNamed(fn, l, r, path) ==
    CASE fn = "lambda: True" -> BoolV(TRUE)
      [] fn = "lambda: False" -> BoolV(FALSE)
      [] fn = "lambda: l != r" -> BoolV(~PyEq(l, r))
      [] fn = "lambda: None if l == r else (l, r)" -> IF PyEq(l, r) THEN None ELSE TupleV(<<l, r>>)
      [] fn \in {"probe_a", "probe_b"} -> TupleV(<<StrV(<<fn>>), l, r, StrV(path)>>)

\* the default table had with_comparators written its two entries into the
\* table it reads
DefaultTableAfter_in_place(none_dif_default) == with_comparators(none_dif_default)

\* the default table after with_comparators(None, none_dif_default): the entry
\* of NoneType is deleted from, and that of (str, NoneType) written to,
\* dict(DEFAULT_TYPE_COMPARATOR), which is a copy
DefaultTableAfter(none_dif_default) == default_type_comparator

\* DeepDelta.__init__: the instance, or the TypeError of get_output, or the
\* KeyError of with_comparators. A config of None or of no bits is falsy and
\* gives way to DEFAULT_DELTA_CONFIG.
DeepDeltaInit(config, named, excluded) ==
    LET c == IF config # 0 THEN config ELSE DEFAULT_DELTA_CONFIG
        output == get_output(c)
    IN  IF IsRaise(output) THEN output
        ELSE IF matches(c, NoneUnequalDefault, 0) /\ <<"NoneType">> \notin DOMAIN default_type_comparator
        THEN Raise("KeyError")
        ELSE <<"DeepDelta",
               [config |-> c,
                output |-> output,
                typed_equal |-> with_comparators(matches(c, NoneUnequalDefault, 0)),
                named_comparators |-> named,
                keys_excluded |-> excluded]>>

\* DeepDelta.as_delta
as_delta(e, as_dif, l, r) == CallOutput(e.output, as_dif, l, r)

\* the comparator of the last of the specifiers that matched
FirstComparator_last(named, hits) == IF hits = {} THEN None ELSE StrV(<<named[SetMax(hits)][2]>>)

\* the comparator of the first of the specifiers that matched, None for none
FirstComparator(named, hits) == IF hits = {} THEN None ELSE StrV(<<named[SetMin(hits)][2]>>)

\* get_named_comparator finding no comparator, whatever is registered
get_named_comparator_none(e, path) == None

\* DeepDelta.get_named_comparator: the comparator of the first specifier, in
\* the order of the dict, that matches key_path; None when none matches
get_named_comparator(e, path) ==
    FirstComparator(e.named_comparators,
                    {i \in 1..Len(e.named_comparators) :
                        IsTrue(key_matches(e.named_comparators[i][1], StrV(path),
                                           matches(e.config, KeyCaseIgnored, 0)))})

\* DeepDelta.is_excluded
is_excluded(e, path) ==
    \E i \in 1..Len(e.keys_excluded) :
        IsTrue(key_matches(e.keys_excluded[i], StrV(path), matches(e.config, KeyCaseIgnored, 0)))

\* a filter that keeps every delta
delta_to_keep_all(e, value) == TRUE

\* DeepDelta.delta_to_keep, as the truth value the filter reads
delta_to_keep(e, value) ==
    IF matches(e.config, OutputKeepAllDetails, 0) THEN TRUE
    ELSE IF value = None THEN FALSE
    ELSE IF matches(e.config, OutputWithFlag, 0) /\ value[1] = "tuple" THEN Truthy(value[2][1])
    ELSE IF IsCollection(value) THEN Truthy(value)
    ELSE Truthy(value)

\* every element of the product of a function of sets
RECURSIVE Choices(_)
Choices(f) ==
    IF DOMAIN f = {} THEN {f}
    ELSE LET k == CHOOSE j \in DOMAIN f : TRUE
             rest == Choices([j \in DOMAIN f \ {k} |-> f[j]])
         IN  {[j \in DOMAIN f |-> IF j = k THEN v ELSE c[j]] : v \in f[k], c \in rest}

\* The iteration order of a Python set is not the program's to choose. Where
\* the code takes the last of several matching keys, or lets the first of
\* several failing entries raise, any of them can be the one: compare_any,
\* compare_dict and compare_sequence give the set of the results the call can
\* return, an exception among them as <<"raise", name>>.
RECURSIVE compare_any(_, _, _, _)
RECURSIVE compare_dict(_, _, _, _)
RECURSIVE compare_sequence(_, _, _, _)

\* is_dif of two str that are different as they are
is_dif_native(ls, rs, config) == TRUE

\* is_dif of compare_any for two str: they differ after strip() when
\* ValueSpaceTrimmed is set and casefold() when ValueCaseIgnored is set
is_dif(ls, rs, config) ==
    LET value_space_trimmed == matches(config, ValueSpaceTrimmed, 0)
        value_case_ignored == matches(config, ValueCaseIgnored, 0)
    IN  IF value_case_ignored
        THEN (IF value_space_trimmed THEN casefold(strip(ls)) # casefold(strip(rs))
              ELSE casefold(ls) # casefold(rs))
        ELSE (IF value_space_trimmed THEN strip(ls) # strip(rs) ELSE ls # rs)

\* the branches of compare_any below the named comparator, which is given
CompareValues(l, r, path, e, named_comparator) ==
    IF named_comparator # None
    THEN {as_delta(e, CallNamed(named_comparator[2][1], l, r, path), l, r)}
    ELSE IF PyEq(l, r) THEN {as_delta(e, BoolV(FALSE), l, r)}
    ELSE IF IsStr(l) /\ IsStr(r) THEN {as_delta(e, BoolV(is_dif(l[2], r[2], e.config)), l, r)}
    ELSE IF IsMapping(l) /\ IsMapping(r) THEN compare_dict(l, r, path, e)
    ELSE IF IsSequence(l) /\ IsSequence(r) THEN compare_sequence(l, r, path, e)
    ELSE {IF IsRaise(typed_result) THEN typed_result
          ELSE as_delta(e, BoolV(IF typed_result[1] = "bool" THEN ~typed_result[2] ELSE TRUE), l, r) :
            typed_result \in {are_equal(l, r, e.typed_equal)}}

\* DeepDelta.compare_any(lhs, rhs, key_path)
compare_any(l, r, path, e) == CompareValues(l, r, path, e, get_named_comparator(e, path))

\* dict_path + PATH_SEPARATOR + str(k)
PathOf(dict_path, k) == dict_path \o <<PATH_SEPARATOR>> \o PyStr(k)

\* the keys of one side that are not excluded
KeysCompared(d, dict_path, e) == {k \in DOMAIN d[2] : ~is_excluded(e, PathOf(dict_path, k))}

\* the value of one side under the matched keys: of several, the last in the
\* iteration order of the set, which can be any of them; of none, MISSING or None
ValuesUnder(d, ks, e) ==
    IF ks # {} THEN {d[2][k] : k \in ks}
    ELSE {IF matches(e.config, MissingAsNone, 0) THEN None ELSE MISSING}

\* the delta of an entry of compare_dict from its two values: the result of
\* the named comparator as it is, or the comparison of the values
EntryDelta(l_value, r_value, key_path, e, named_comparator) ==
    IF named_comparator # None
    THEN {CallNamed(named_comparator[2][1], l_value, r_value, key_path)}
    ELSE IF PyEq(l_value, r_value) THEN {as_delta(e, BoolV(FALSE), l_value, r_value)}
    ELSE compare_any(l_value, r_value, key_path, e)

\* the body of the loop of compare_dict for one normalized key
EntryDeltas(l, r, l_keys, r_keys, key, key_path, e) ==
    LET ci == matches(e.config, KeyCaseIgnored, 0)
        key_space_trimmed == matches(e.config, KeySpaceTrimmed, 0)
    IN  IF \/ matched_keys_raises(key, l_keys, ci, key_space_trimmed)
           \/ matched_keys_raises(key, r_keys, ci, key_space_trimmed)
        THEN {Raise("AttributeError")}
        ELSE UNION {EntryDelta(l_value, r_value, key_path, e, named_comparator) :
                        l_value \in ValuesUnder(l, matched_keys(key, l_keys, ci, key_space_trimmed), e),
                        r_value \in ValuesUnder(r, matched_keys(key, r_keys, ci, key_space_trimmed), e),
                        named_comparator \in {get_named_comparator(e, key_path)}}

\* what compare_dict ends with, given the delta of every entry: the raise of an
\* entry, or the dict of the deltas to keep
DictReturned(delta, e) ==
    LET raised == {delta[key] : key \in {k \in DOMAIN delta : IsRaise(delta[k])}}
    IN  IF raised # {} THEN raised
        ELSE {DictV([key \in {k \in DOMAIN delta : delta_to_keep(e, delta[k])} |-> delta[key]])}

\* l_keys.union(r_keys): a key of the right side equal to one of the left,
\* as 1 is to True and to 1.0, is not added
KeysUnion(l_keys, r_keys) == l_keys \cup {k \in r_keys : \A j \in l_keys : ~SameOrEqual(j, k)}

\* compare_dict from the keys of the two sides that are not excluded
CompareEntries(l, r, dict_path, e, l_keys, r_keys) ==
    LET ci == matches(e.config, KeyCaseIgnored, 0)
    IN  UNION {DictReturned(delta, e) :
                delta \in Choices([key \in {k \in {normalize(j, ci, FALSE) : j \in KeysUnion(l_keys, r_keys)} :
                                                ~is_excluded(e, PathOf(dict_path, k))} |->
                                        EntryDeltas(l, r, l_keys, r_keys, key, PathOf(dict_path, key), e)])}

\* DeepDelta.compare_dict(lhs, rhs, dict_path)
compare_dict(l, r, dict_path, e) ==
    CompareEntries(l, r, dict_path, e, KeysCompared(l, dict_path, e), KeysCompared(r, dict_path, e))

\* compare_sequence from the two dicts the sequences were converted to
CompareConverted(l_dict, r_dict, seq_path, e) ==
    IF IsRaise(l_dict) THEN {l_dict}
    ELSE IF IsRaise(r_dict) THEN {r_dict}
    ELSE compare_dict(l_dict, r_dict, seq_path, e)

\* compare_sequence from the keys guessed for the two sequences, each
\* converted to a dict once
CompareGuessed(l, r, seq_path, e, l_keys, r_keys) ==
    LET ci == matches(e.config, KeyCaseIgnored, 0)
        is_key == matches(e.config, IdAsKey, 0)
    IN  IF IsRaise(l_keys) THEN {l_keys}
        ELSE IF IsRaise(r_keys) THEN {r_keys}
        ELSE IF l_keys[1] = "dict" THEN {Raise("AttributeError")}
        ELSE UNION {CompareConverted(dicts[1], dicts[2], seq_path, e) :
                        dicts \in {<<sequence_to_dict(l, is_key, ci, l_keys[2] \cap r_keys[2]),
                                     sequence_to_dict(r, is_key, ci, l_keys[2] \cap r_keys[2])>>}}

\* DeepDelta.compare_sequence(lhs, rhs, seq_path), is_key and keys left out
compare_sequence(l, r, seq_path, e) ==
    CompareGuessed(l, r, seq_path, e,
                   guess_keys(l, matches(e.config, IdAsKey, 0), matches(e.config, KeyCaseIgnored, 0), {}),
                   guess_keys(r, matches(e.config, IdAsKey, 0), matches(e.config, KeyCaseIgnored, 0), {}))

\* DeepDelta.compare(lhs, rhs, options, None, named_comparators, *excluded_keys)
compare(l, r, config, named, excluded) ==
    LET comparator == DeepDeltaInit(config, named, excluded)
    IN  IF IsRaise(comparator) THEN {comparator} ELSE compare_any(l, r, <<>>, comparator[2])

-----------------------------------------------------------------------------
(* Direct calls of key_matches: the arguments are drawn from bounded sets   *)

\* longest literal specifier
MaxSpecLen == 3
\* longest key path
MaxPathLen == 4
\* most tokens of a compiled pattern
MaxPatternLen == 2

SeqsUpTo(S, n) == UNION {[1..k -> S] : k \in 0..n}

PathChars == {"a", "A", PATH_SEPARATOR}
PatternTokens ==
    {[k |-> "lit", c |-> ch] : ch \in PathChars}
        \cup {[k |-> "dot", c |-> "."], [k |-> "dotstar", c |-> ".*"]}

LiteralSpecs == {StrV(s) : s \in SeqsUpTo(PathChars, MaxSpecLen)}
PatternSpecs ==
    {<<"pattern", [ic |-> f, toks |-> t]>> : f \in BOOLEAN, t \in SeqsUpTo(PatternTokens, MaxPatternLen)}
KeyPaths == {StrV(s) : s \in SeqsUpTo(PathChars, MaxPathLen)}

Idle ==
    /\ output_buffer = Output_Buffer
    /\ default_type_comparator = DEFAULT_TYPE_COMPARATOR
    /\ call_args = None
    /\ call_result = None
    /\ options = 0
    /\ named_comparators = <<>>
    /\ keys_excluded = <<>>
    /\ lhs = None
    /\ rhs = None
    /\ engine = None
    /\ result = None

NoCall ==
    /\ km_kp = None
    /\ km_key_path = None
    /\ km_case_ignored = FALSE
    /\ km_matched = None

InitKeyMatches ==
    /\ Idle
    /\ pc = "call"
    /\ km_kp \in LiteralSpecs \cup PatternSpecs
    /\ km_key_path \in KeyPaths
    /\ km_case_ignored \in BOOLEAN
    /\ km_matched = None

\* the call returns
KeyMatchesCall ==
    /\ pc = "call"
    /\ km_matched' = key_matches(km_kp, km_key_path, km_case_ignored)
    /\ pc' = "returned"
    /\ UNCHANGED <<options, named_comparators, keys_excluded, lhs, rhs, engine, result,
                   km_kp, km_key_path, km_case_ignored, output_buffer, default_type_comparator, call_args, call_result>>

NextKeyMatches == KeyMatchesCall

SpecKeyMatches == InitKeyMatches /\ [][NextKeyMatches]_vars

-----------------------------------------------------------------------------
(* C9, C10: the specifier grammar                                           *)

Fold(s, ci) == IF ci THEN casefold(s) ELSE s

\* the part of path after its last separator, all of it when it has none
IsLastSegment(seg, path) ==
    /\ endswith(path, seg)
    /\ \A i \in 1..Len(seg) : seg[i] # PATH_SEPARATOR
    /\ \/ Len(seg) = Len(path)
       \/ path[Len(path) - Len(seg)] = PATH_SEPARATOR

\* what the grammar promises for the literal specifier key on path
LiteralExpected(key, path, ci) ==
    IF PATH_SEPARATOR \notin {key[i] : i \in 1..Len(key)}
    THEN \E n \in 0..Len(path) :
            LET seg == SubSeq(path, n + 1, Len(path))
            IN  IsLastSegment(seg, path) /\ Fold(seg, ci) = Fold(key, ci)
    ELSE IF Head(key) = PATH_SEPARATOR
    THEN Fold(key, ci) = Fold(path, ci)
    ELSE \E n \in 0..Len(path) : SubSeq(Fold(path, ci), n + 1, Len(path)) = Fold(key, ci)

\* C9: a literal specifier matches a key path by its own shape: a bare name
\* iff it equals the last segment, a specifier with a leading separator iff it
\* equals the whole path, any other specifier with a separator iff the path
\* ends with it; case-folded iff case_ignored is passed, and nothing else
\* matches.
C9_LiteralSpecifierShapes ==
    (pc = "returned" /\ IsStr(km_kp))
        => km_matched = BoolV(LiteralExpected(km_kp[2], km_key_path[2], km_case_ignored))

\* a suffix specifier matched, case-folded, on a longer path
C9_Witness ==
    /\ pc = "returned"
    /\ km_kp = StrV(<<"A", ">", "a">>)
    /\ km_key_path = StrV(<<">", "a", ">", "a">>)
    /\ km_case_ignored
    /\ km_matched = BoolV(TRUE)

RECURSIVE MatchBack(_, _, _)
\* the language of a token sequence, read from its last token
MatchBack(toks, s, ic) ==
    IF toks = <<>> THEN s = <<>>
    ELSE LET t == toks[Len(toks)]
             front == SubSeq(toks, 1, Len(toks) - 1)
         IN  IF t.k = "dotstar"
             THEN \E n \in 0..Len(s) : MatchBack(front, SubSeq(s, 1, n), ic)
             ELSE /\ Len(s) > 0
                  /\ \/ t.k = "dot"
                     \/ Fold(<<s[Len(s)]>>, ic) = Fold(<<t.c>>, ic)
                  /\ MatchBack(front, SubSeq(s, 1, Len(s) - 1), ic)

\* C10: a compiled pattern matches iff it matches the whole path, and the
\* case_ignored argument changes nothing: only the pattern's own flag folds case.
C10_PatternIgnoresConfig ==
    (pc = "returned" /\ km_kp[1] = "pattern")
        => /\ km_matched = BoolV(MatchBack(km_kp[2].toks, km_key_path[2], km_kp[2].ic))
           /\ key_matches(km_kp, km_key_path, ~km_case_ignored) = km_matched

\* an IGNORECASE pattern matched a path of another case with case_ignored off
C10_Witness ==
    /\ pc = "returned"
    /\ km_kp = <<"pattern", [ic |-> TRUE, toks |-> <<[k |-> "dotstar", c |-> ".*"], [k |-> "lit", c |-> "A"]>>]>>
    /\ km_key_path = StrV(<<">", "a">>)
    /\ ~km_case_ignored
    /\ km_matched = BoolV(TRUE)

-----------------------------------------------------------------------------
(* DeepDelta.compare: construct the instance, then compare_any at the root  *)

\* comparator = DeepDelta(options, type_comparators, named_comparators, *excluded_keys)
Construct ==
    /\ pc = "start"
    /\ engine' = DeepDeltaInit(options, named_comparators, keys_excluded)
    /\ pc' = IF IsRaise(engine') THEN "raised" ELSE "ready"
    /\ result' = IF IsRaise(engine') THEN engine' ELSE result
    /\ default_type_comparator' =
            IF IsRaise(engine') THEN default_type_comparator
            ELSE DefaultTableAfter(matches(engine'[2].config, NoneUnequalDefault, 0))
    /\ UNCHANGED <<options, named_comparators, keys_excluded, lhs, rhs,
                   km_kp, km_key_path, km_case_ignored, km_matched,
                   output_buffer, call_args, call_result>>

\* return comparator.compare_any(lhs, rhs)
CompareAny ==
    /\ pc = "ready"
    /\ result' \in compare_any(lhs, rhs, <<>>, engine[2])
    /\ pc' = "done"
    /\ UNCHANGED <<options, named_comparators, keys_excluded, lhs, rhs, engine,
                   km_kp, km_key_path, km_case_ignored, km_matched,
                   output_buffer, default_type_comparator, call_args, call_result>>

NextCompare == Construct \/ CompareAny

\* a call of compare that is about to start
Start ==
    /\ pc = "start"
    /\ engine = None
    /\ result = None
    /\ NoCall
    /\ output_buffer = Output_Buffer
    /\ default_type_comparator = DEFAULT_TYPE_COMPARATOR
    /\ call_args = None
    /\ call_result = None

\* the rendering of "not different" for the two values
NotDifferent(e, l, r) == as_delta(e, BoolV(FALSE), l, r)

-----------------------------------------------------------------------------
(* C1: compare(x, x)                                                        *)

\* nesting depth of the values compared with themselves
ReflDepth == 2

Scalars == {None, BoolV(TRUE), IntV(0), IntV(1), StrV(<<>>), StrV(<<"a">>), NaN}

RECURSIVE Nested(_)
\* scalars, and maps and sequences of at most one entry, nested to depth d
Nested(d) ==
    IF d = 0 THEN Scalars
    ELSE LET inner == Nested(d - 1)
         IN  inner \cup {EmptyDict, ListV(<<>>)}
                   \cup {DictV([k \in {StrV(<<"a">>)} |-> v]) : v \in inner}
                   \cup {ListV(<<v>>) : v \in inner}

\* every combination of the output bits, over the default comparison bits
OutputConfigs ==
    {DEFAULT_DELTA_CONFIG + bits :
        bits \in {0, OutputKeepAllDetails, OutputWithFlag, OutputIncludeValueTypes, OutputAllDetails,
                  OutputNoneOrDict, OutputNoneOrDictRaw, OutputDeltaAsStr, OutputNoneOrStrRaw,
                  OutputDeltaAsDict + OutputDeltaAsStr}}

InitReflexive ==
    /\ Start
    /\ options \in OutputConfigs
    /\ named_comparators = <<>>
    /\ keys_excluded = <<>>
    /\ lhs \in Nested(ReflDepth)
    /\ rhs = lhs

SpecReflexive == InitReflexive /\ [][NextCompare]_vars

\* C1: for every value x and every configuration whose output bits resolve to
\* a formatter, with no named comparators and no exclusions, compare(x, x) is
\* the formatter's rendering of "not different".
C1_Reflexivity ==
    pc = "done" => result = NotDifferent(engine[2], lhs, rhs)

\* C1, away from NaN: compare(x, x) is the rendering of "not different" for
\* every x other than a NaN at the root.
C1_ReflexivityButNaN ==
    (pc = "done" /\ lhs # NaN) => result = NotDifferent(engine[2], lhs, rhs)

\* a map was compared with itself
C1_Witness ==
    /\ pc = "done"
    /\ lhs = DictV([k \in {StrV(<<"a">>)} |-> ListV(<<IntV(1)>>)])
    /\ result = None

-----------------------------------------------------------------------------
(* C2: sequences of records aligned by an identity field                    *)

\* most records of a sequence
MaxSeqLen == 2

IdFields == {StrV(<<"i", "d">>), StrV(<<"x", "I", "d">>)}
IdValues == {IntV(1), StrV(<<"n">>), StrV(<<"N">>)}
FieldValues == {IntV(1), IntV(2)}
ValueField == StrV(<<"v">>)

\* a record {f: i, 'v': x}
Record(f, i, x) == DictV([k \in {f, ValueField} |-> IF k = f THEN i ELSE x])

\* the sequences of at most MaxSeqLen records with identity field f, no two
\* records of a sequence with the same identity value
RecordSeqs(f) ==
    {ListV(s) : s \in {t \in SeqsUpTo({Record(f, i, x) : i \in IdValues, x \in FieldValues}, MaxSeqLen) :
                        \A i, j \in 1..Len(t) : t[i][2][f] = t[j][2][f] => i = j}}

\* the orderings of the items of a list
Orderings(seq) ==
    LET n == Len(seq[2])
    IN  {ListV([i \in 1..n |-> seq[2][p[i]]]) :
            p \in {q \in [1..n -> 1..n] : \A i, j \in 1..n : q[i] = q[j] => i = j}}

\* key case ignored or not, over the other default bits
KeyCaseConfigs == {DEFAULT_DELTA_CONFIG, DEFAULT_DELTA_CONFIG - KeyCaseIgnored}

InitSequences ==
    /\ Start
    /\ options \in KeyCaseConfigs
    /\ named_comparators = <<>>
    /\ keys_excluded = <<>>
    /\ \E f \in IdFields : lhs \in RecordSeqs(f) /\ rhs \in RecordSeqs(f)

SpecSequences == InitSequences /\ [][NextCompare]_vars

\* the identity fields compare_sequence infers for both sequences
SharedIdentity(e, l, r) ==
    LET ci == matches(e.config, KeyCaseIgnored, 0)
        is_key == matches(e.config, IdAsKey, 0)
        l_keys == guess_keys(l, is_key, ci, {})
        r_keys == guess_keys(r, is_key, ci, {})
    IN  IF l_keys[1] = "set" /\ r_keys[1] = "set" THEN l_keys[2] \cap r_keys[2] ELSE {}

\* the identity of item i of seq over the fields ks
IdentityOf(seq, i, ks) == [k \in ks |-> seq[2][i][2][k]]

\* the identities are unique within the sequence
UniqueIdentities(seq, ks) ==
    \A i, j \in 1..Len(seq[2]) : IdentityOf(seq, i, ks) = IdentityOf(seq, j, ks) => i = j

\* the identities stay unique as the keys compare_dict aligns them by
UniqueNormalizedIdentities(seq, ks, ci) ==
    \A i, j \in 1..Len(seq[2]) :
        (\A k \in ks : normalize(seq[2][i][2][k], ci, TRUE) = normalize(seq[2][j][2][k], ci, TRUE))
            => i = j

\* one ordering of the items of a list, the same one for all its orderings
Canonical(seq) == CHOOSE p \in Orderings(seq) : TRUE

\* every way the comparison of the two sequences, each in its canonical
\* ordering, can come out
CanonicalOutcomes == compare_any(Canonical(lhs), Canonical(rhs), <<>>, engine[2])

\* the empty map and None both read "no difference"
EmptyAsNone(d) == IF d = EmptyDict THEN None ELSE d

-----------------------------------------------------------------------------
(* C3: maps compared with one full-path exclusion                           *)

KeyA == StrV(<<"a">>)
KeySpaceA == StrV(<<" ", "a">>)
KeyB == StrV(<<"b">>)

\* the values under the keys 'a' and ' a': two numbers and two one-entry maps
EntryValues == FieldValues \cup {DictV([k \in {KeyB} |-> x]) : x \in FieldValues}

\* the maps over subsets of the keys ks with values from vs
MapsOver(ks, vs) == UNION {{DictV(f) : f \in [d -> vs]} : d \in SUBSET ks}

\* key whitespace trimmed or not, over the other default bits
KeySpaceConfigs == {DEFAULT_DELTA_CONFIG, DEFAULT_DELTA_CONFIG - KeySpaceTrimmed}

FullPaths == {StrV(<<">", "a">>), StrV(<<">", " ", "a">>), StrV(<<">", "a", ">", "b">>)}

InitExclusion ==
    /\ Start
    /\ options \in KeySpaceConfigs
    /\ named_comparators = <<>>
    /\ \E P \in FullPaths : keys_excluded = <<P>>
    /\ lhs \in MapsOver({KeyA, KeySpaceA}, EntryValues)
    /\ rhs \in MapsOver({KeyA, KeySpaceA}, EntryValues)

SpecExclusion == InitExclusion /\ [][NextCompare]_vars

RECURSIVE PathKeys(_)
\* the keys along a full path: '>a>b' gives <<'a', 'b'>>
PathKeys(path) ==
    IF path = <<>> THEN <<>>
    ELSE LET rest == Tail(path)
             seps == {i \in 1..Len(rest) : rest[i] = PATH_SEPARATOR}
             n == IF seps = {} THEN Len(rest) + 1 ELSE SetMin(seps)
         IN  <<StrV(SubSeq(rest, 1, n - 1))>> \o PathKeys(SubSeq(rest, n, Len(rest)))

RECURSIVE HasBranch(_, _)
\* the delta d has an entry at the path of keys ks
HasBranch(d, ks) ==
    \/ ks = <<>>
    \/ /\ IsMapping(d)
       /\ Head(ks) \in DOMAIN d[2]
       /\ HasBranch(d[2][Head(ks)], Tail(ks))

RECURSIVE WithoutBranch(_, _)
\* the delta d with the branch at ks removed, and with it the maps that the
\* removal leaves empty
WithoutBranch(d, ks) ==
    LET k == Head(ks)
        others == DOMAIN d[2] \ {k}
        child == WithoutBranch(d[2][k], Tail(ks))
    IN  IF Len(ks) = 1 \/ child = EmptyDict
        THEN DictV([j \in others |-> d[2][j]])
        ELSE DictV([j \in DOMAIN d[2] |-> IF j = k THEN child ELSE d[2][j]])

\* every way the comparison can come out with nothing excluded
UnexcludedOutcomes ==
    compare_any(lhs, rhs, <<>>, [engine[2] EXCEPT !.keys_excluded = <<>>])

\* the results the exclusion of P promises: a result that reports a
\* difference at P, with exactly that branch removed
ExclusionExpected ==
    LET ks == PathKeys(keys_excluded[1][2])
    IN  {WithoutBranch(d, ks) : d \in {b \in UnexcludedOutcomes : HasBranch(b, ks)}}

\* C3: when compare(a, b) reports a difference at the key path P, the same
\* comparison with P excluded yields that result with exactly the branch at P
\* removed, every other entry present and unchanged.
C3_ExclusionSufficiency ==
    (pc = "done" /\ ExclusionExpected # {}) => result \in ExclusionExpected

\* C3, with key whitespace not trimmed: excluding P removes exactly the
\* branch at P.
C3_ExclusionSufficiencyUntrimmed ==
    (pc = "done" /\ ExclusionExpected # {} /\ ~matches(options, KeySpaceTrimmed, 0))
        => result \in ExclusionExpected

-----------------------------------------------------------------------------
(* C4: one named comparator, registered for the root or for the entry 'a'   *)

NamedFunctions ==
    {"lambda: True", "lambda: False", "lambda: l != r", "lambda: None if l == r else (l, r)"}

RootSpec == StrV(<<>>)
EntrySpec == StrV(<<">", "a">>)

\* the default output, the flagged output, and every detail kept
NamedConfigs ==
    {DEFAULT_DELTA_CONFIG, DEFAULT_DELTA_CONFIG + OutputWithFlag, DEFAULT_DELTA_CONFIG + OutputKeepAllDetails}

InitNamed ==
    /\ Start
    /\ options \in NamedConfigs
    /\ \E k \in {RootSpec, EntrySpec}, fn \in NamedFunctions : named_comparators = <<<<k, fn>>>>
    /\ keys_excluded = <<>>
    /\ lhs \in FieldValues \cup MapsOver({KeyA, KeyB}, FieldValues)
    /\ rhs \in FieldValues \cup MapsOver({KeyA, KeyB}, FieldValues)

SpecNamed == InitNamed /\ [][NextCompare]_vars

\* the one registered comparator matches the key path
NamedMatches(path) ==
    IsTrue(key_matches(named_comparators[1][1], StrV(path),
                       matches(engine[2].config, KeyCaseIgnored, 0)))

\* the value of the entry 'a' on a side, None where the side has no such key
\* (the configurations here treat a missing key as None)
EntryA(m) == IF KeyA \in DOMAIN m[2] THEN m[2][KeyA] ELSE None

\* the comparator's own result for the two values
NamedResult(l, r, path) == CallNamed(named_comparators[1][2], l, r, path)

\* the root is matched: its delta is the formatter applied to the result
RootDelegated ==
    NamedMatches(<<>>) => result = as_delta(engine[2], NamedResult(lhs, rhs, <<>>), lhs, rhs)

\* the entry 'a' of two maps under comparison is matched, the root is not
EntryCompared ==
    /\ ~NamedMatches(<<>>)
    /\ NamedMatches(EntrySpec[2])
    /\ IsMapping(lhs) /\ IsMapping(rhs)
    /\ ~PyEq(lhs, rhs)
    /\ KeyA \in DOMAIN lhs[2] \cup DOMAIN rhs[2]

\* the entry 'a' of the result is d, or is absent when d is not to be kept
EntryIs(d) ==
    /\ IsMapping(result)
    /\ IF delta_to_keep(engine[2], d)
       THEN KeyA \in DOMAIN result[2] /\ result[2][KeyA] = d
       ELSE KeyA \notin DOMAIN result[2]

\* C4: whenever a named comparator matches the key path of a node, the root or
\* an entry of a map being compared, the node's delta is the configured
\* formatter applied to (the comparator's result, left value, right value).
C4_NamedDelegation ==
    pc = "done" =>
        /\ RootDelegated
        /\ EntryCompared =>
              EntryIs(as_delta(engine[2], NamedResult(EntryA(lhs), EntryA(rhs), EntrySpec[2]),
                               EntryA(lhs), EntryA(rhs)))

\* C4, amended: at the root the delta is the formatter applied to the
\* comparator's result; at an entry of a map the delta is the comparator's
\* result itself, unformatted, and the entry is dropped when that result is
\* not one to keep; in both cases no default step runs for the node.
C4_NamedDelegationRawEntries ==
    pc = "done" =>
        /\ RootDelegated
        /\ EntryCompared => EntryIs(NamedResult(EntryA(lhs), EntryA(rhs), EntrySpec[2]))

\* the comparator of the entry 'a' called two equal values different, and
\* the entry holds its bare result
C4_Witness ==
    /\ pc = "done"
    /\ options = DEFAULT_DELTA_CONFIG
    /\ named_comparators = <<<<EntrySpec, "lambda: True">>>>
    /\ lhs = DictV([k \in {KeyA, KeyB} |-> IntV(1)])
    /\ rhs = DictV([k \in {KeyA, KeyB} |-> IF k = KeyA THEN IntV(1) ELSE IntV(2)])
    /\ result = DictV([k \in {KeyA, KeyB} |->
                        IF k = KeyA THEN BoolV(TRUE) ELSE TupleV(<<IntV(1), IntV(2)>>)])

-----------------------------------------------------------------------------
(* C5: maps with a key on one side only, a missing key not read as None     *)

KeyK == StrV(<<"k">>)
KeyZ == StrV(<<"z">>)

\* what the present side can hold: None, a number, a boolean, strings, composites
PresentValues ==
    {None, IntV(5), BoolV(TRUE), StrV(<<"a">>), MISSING,
     DictV([k \in {KeyB} |-> IntV(1)]), ListV(<<StrV(<<"a">>)>>)}

\* the default comparison bits without MissingAsNone, default and flagged output
MissingConfigs ==
    {DEFAULT_DELTA_CONFIG - MissingAsNone, DEFAULT_DELTA_CONFIG - MissingAsNone + OutputWithFlag}

InitMissing ==
    /\ Start
    /\ options \in MissingConfigs
    /\ named_comparators = <<>>
    /\ keys_excluded = <<>>
    /\ lhs \in MapsOver({KeyK, KeyZ}, PresentValues)
    /\ rhs \in MapsOver({KeyK, KeyZ}, PresentValues)

SpecMissing == InitMissing /\ [][NextCompare]_vars

\* the result holds, at key k, the difference of the two values
ReportsDifference(k, l, r) ==
    /\ IsMapping(result)
    /\ k \in DOMAIN result[2]
    /\ result[2][k] = as_delta(engine[2], BoolV(TRUE), l, r)

\* C5: with missing-as-none disabled, for every entry whose key is on exactly
\* one side, whatever the present side holds, the comparison completes without
\* error and reports the entry as a difference between the present value and
\* the MISSING sentinel.
C5_MissingSentinel ==
    pc = "done" =>
        /\ \A k \in DOMAIN lhs[2] \ DOMAIN rhs[2] : ReportsDifference(k, lhs[2][k], MISSING)
        /\ \A k \in DOMAIN rhs[2] \ DOMAIN lhs[2] : ReportsDifference(k, MISSING, rhs[2][k])

\* C5, for None and for strings other than the sentinel's own text: the entry
\* is reported as a difference against MISSING, when no other entry raises.
C5_MissingSentinelForText ==
    LET text(v) == v = None \/ (IsStr(v) /\ v # MISSING)
    IN  (pc = "done" /\ ~IsRaise(result)) =>
            /\ \A k \in DOMAIN lhs[2] \ DOMAIN rhs[2] :
                    text(lhs[2][k]) => ReportsDifference(k, lhs[2][k], MISSING)
            /\ \A k \in DOMAIN rhs[2] \ DOMAIN lhs[2] :
                    text(rhs[2][k]) => ReportsDifference(k, MISSING, rhs[2][k])

-----------------------------------------------------------------------------
(* C6: sequences whose items are of several types                           *)

\* most items of a sequence of scalars
MaxItems == 2

\* numbers and numeric strings, which the typed comparators compare as numbers
Items1 == {IntV(1), IntV(2), StrV(<<"1">>), StrV(<<"2">>)}
ItemSeqs == {ListV(s) : s \in SeqsUpTo(Items1, MaxItems)}

InitHeterogeneous ==
    /\ Start
    /\ options \in {DEFAULT_DELTA_CONFIG, DEFAULT_DELTA_CONFIG - IdAsKey}
    /\ named_comparators = <<>>
    /\ keys_excluded = <<>>
    /\ lhs \in ItemSeqs
    /\ rhs \in ItemSeqs

SpecHeterogeneous == InitHeterogeneous /\ [][NextCompare]_vars

\* the items of the sequence are of more than one type
Heterogeneous(seq) == Cardinality({TypeOf(seq[2][i]) : i \in 1..Len(seq[2])}) > 1

\* the positions of the items of a sequence, as the str keys of its index
Positions(seq) == {StrV(IntStr(i - 1)) : i \in 1..Len(seq[2])}

\* C6: when a sequence under comparison has items of more than one type, on
\* the left, on the right or on both, the comparison completes without
\* raising and returns a delta keyed by the positions of the items.
C6_HeterogeneousSequences ==
    (pc = "done" /\ lhs[2] # <<>> /\ rhs[2] # <<>> /\ (Heterogeneous(lhs) \/ Heterogeneous(rhs))) =>
        \/ result = None
        \/ IsMapping(result) /\ DOMAIN result[2] \subseteq Positions(lhs) \cup Positions(rhs)

\* C6, for a left sequence of one type: the comparison completes and returns
\* a delta keyed by position, whatever the types of the right sequence.
C6_HeterogeneousRightOnly ==
    (pc = "done" /\ lhs[2] # <<>> /\ rhs[2] # <<>> /\ ~Heterogeneous(lhs) /\ Heterogeneous(rhs)) =>
        \/ result = None
        \/ IsMapping(result) /\ DOMAIN result[2] \subseteq Positions(lhs) \cup Positions(rhs)

-----------------------------------------------------------------------------
(* C7: maps whose keys differ in surrounding whitespace and in case         *)

KeyUpperA == StrV(<<"A">>)

\* key case ignored or not, key whitespace trimmed or not, over the other
\* default bits
KeyFoldConfigs ==
    {DEFAULT_DELTA_CONFIG - c - t : c \in {0, KeyCaseIgnored}, t \in {0, KeySpaceTrimmed}}

InitKeyTrim ==
    /\ Start
    /\ options \in KeyFoldConfigs
    /\ named_comparators = <<>>
    /\ keys_excluded = <<>>
    /\ lhs \in MapsOver({KeyA, KeySpaceA, KeyUpperA}, FieldValues)
    /\ rhs \in MapsOver({KeyA, KeySpaceA, KeyUpperA}, FieldValues)

SpecKeyTrim == InitKeyTrim /\ [][NextCompare]_vars

\* a key as the configuration folds it: stripped, and case-folded when key
\* case is ignored
FoldedKey(k, ci) == StrV(Fold(strip(k[2]), ci))

\* the key k of map m is the only key of m that folds as it does
OnlyKeyOfItsFold(k, m, ci) == \A j \in DOMAIN m[2] : FoldedKey(j, ci) = FoldedKey(k, ci) => j = k

\* the result has no entry for a key that folds as k does
NoEntryFor(k, ci) ==
    \/ result = None
    \/ IsMapping(result) /\ \A j \in DOMAIN result[2] : FoldedKey(j, ci) # FoldedKey(k, ci)

\* C7: with key whitespace trimmed, a key of the left map and a key of the
\* right map that are equal after stripping (and case-folding when key case is
\* ignored) are one entry: their values are compared with each other, and
\* equal values under them yield no difference.
C7_KeyWhitespaceFolding ==
    LET ci == matches(options, KeyCaseIgnored, 0)
    IN  (pc = "done" /\ matches(options, KeySpaceTrimmed, 0)) =>
            \A k1 \in DOMAIN lhs[2], k2 \in DOMAIN rhs[2] :
                (/\ FoldedKey(k1, ci) = FoldedKey(k2, ci)
                 /\ OnlyKeyOfItsFold(k1, lhs, ci)
                 /\ OnlyKeyOfItsFold(k2, rhs, ci)
                 /\ PyEq(lhs[2][k1], rhs[2][k2]))
                    => NoEntryFor(k1, ci)

-----------------------------------------------------------------------------
(* C8: maps whose keys differ in case, nested one level                     *)

\* the maps under the key 'b'
InnerMaps == MapsOver({KeyA, KeyUpperA}, {IntV(1)})

\* maps over 'a' and 'A' holding None or a number, with or without a map
\* under 'b'
CaseMaps ==
    LET flat == MapsOver({KeyA, KeyUpperA}, {None, IntV(1)})
    IN  flat \cup {DictV([k \in DOMAIN m[2] \cup {KeyB} |-> IF k = KeyB THEN inner ELSE m[2][k]]) :
                    m \in flat, inner \in InnerMaps}

\* key case ignored or not, a missing key read as None or not, over the
\* other default bits
KeyCaseMissingConfigs ==
    {DEFAULT_DELTA_CONFIG - c - m : c \in {0, KeyCaseIgnored}, m \in {0, MissingAsNone}}

InitKeyCase ==
    /\ Start
    /\ options \in KeyCaseMissingConfigs
    /\ named_comparators = <<>>
    /\ keys_excluded = <<>>
    /\ lhs \in CaseMaps
    /\ rhs \in CaseMaps

SpecKeyCase == InitKeyCase /\ [][NextCompare]_vars

\* a key in lower case
LowerKey(k) == StrV(casefold(k[2]))

RECURSIVE CaseVariants(_, _)
\* x and y differ at most in the letter-casing of their keys: equal values, or
\* maps whose keys correspond one to one up to case, with values that are
\* case variants of each other
CaseVariants(x, y) ==
    IF IsMapping(x) /\ IsMapping(y)
    THEN \E f \in [DOMAIN x[2] -> DOMAIN y[2]] :
            /\ \A k, j \in DOMAIN x[2] : f[k] = f[j] => k = j
            /\ {f[k] : k \in DOMAIN x[2]} = DOMAIN y[2]
            /\ \A k \in DOMAIN x[2] : LowerKey(k) = LowerKey(f[k]) /\ CaseVariants(x[2][k], y[2][f[k]])
    ELSE x = y

RECURSIVE FoldDistinct(_)
\* no two keys of one map, at any depth, are equal after case folding
FoldDistinct(x) ==
    IsMapping(x) =>
        /\ \A k, j \in DOMAIN x[2] : LowerKey(k) = LowerKey(j) => k = j
        /\ \A k \in DOMAIN x[2] : FoldDistinct(x[2][k])

RECURSIVE Recased(_, _)
\* some key, at any depth, is written on one side only and holds a value that
\* is neither None nor a default value
Recased(x, y) ==
    /\ IsMapping(x) /\ IsMapping(y)
    /\ \/ \E k \in DOMAIN x[2] \ DOMAIN y[2] : Truthy(x[2][k])
       \/ \E k \in DOMAIN y[2] \ DOMAIN x[2] : Truthy(y[2][k])
       \/ \E k \in DOMAIN x[2] \cap DOMAIN y[2] : Recased(x[2][k], y[2][k])

\* the result reads "no difference": None, or the empty map
NoDifference == result \in {None, EmptyDict}

\* the result is a delta that reports a difference
Different == ~IsRaise(result) /\ ~NoDifference

-----------------------------------------------------------------------------
(* C11: construction under every combination of the output bits, with       *)
(* formatters registered by set_output before or after it                    *)

\* registrations made by set_output in one behaviour
MaxSetOutputs == 1

\* the 32 combinations of the five output bits
OutputBitCombinations ==
    {a + b + c + d : a \in {0, OutputKeepAllDetails}, b \in {0, OutputWithDeltaIndicator},
                     c \in {0, OutputIncludeValueTypes},
                     d \in {0, OutputDeltaAsDict, OutputDeltaAsStr, OutputDeltaAsDict + OutputDeltaAsStr}}

\* the combinations set_output is called with, and the formatters it registers
CombinationsSet == {OutputKeepAllDetails, OutputIncludeValueTypes}
FormattersSet == {"as_tuple", "as_none_or_str"}

\* the entries of the table that set_output has changed
Registrations ==
    {k \in DOMAIN output_buffer : k \notin DOMAIN Output_Buffer \/ output_buffer[k] # Output_Buffer[k]}

\* set_output(config, output), called at any time
SetOutput ==
    /\ Cardinality(Registrations) < MaxSetOutputs
    /\ \E config \in CombinationsSet, output \in FormattersSet :
            output_buffer' = set_output(output_buffer, config, output)
    /\ UNCHANGED <<options, named_comparators, keys_excluded, lhs, rhs, pc, engine, result,
                   km_kp, km_key_path, km_case_ignored, km_matched, default_type_comparator,
                   call_args, call_result>>

InitFormatter ==
    /\ pc = "start"
    /\ engine = None
    /\ result = None
    /\ NoCall
    /\ output_buffer = Output_Buffer
    /\ default_type_comparator = DEFAULT_TYPE_COMPARATOR
    /\ call_args = None
    /\ call_result = None
    /\ options \in {DEFAULT_DELTA_CONFIG + bits : bits \in OutputBitCombinations}
    /\ named_comparators = <<>>
    /\ keys_excluded = <<>>
    /\ lhs \in FieldValues
    /\ rhs \in FieldValues

NextFormatter == SetOutput \/ Construct \/ CompareAny

SpecFormatter == InitFormatter /\ [][NextFormatter]_vars

\* the five output bits of the configuration the constructor uses
OutputBitsOf(config) ==
    BitAnd(IF config # 0 THEN config ELSE DEFAULT_DELTA_CONFIG,
           OutputKeepAllDetails + OutputWithDeltaIndicator + OutputIncludeValueTypes
               + OutputDeltaAsDict + OutputDeltaAsStr)

\* C11: construction succeeds iff the five output bits of the configuration
\* are a combination registered in the formatter table at that moment, and
\* the engine then holds the formatter registered; for any other combination
\* construction raises the configuration error, no formatter is substituted,
\* and no comparison is run: the call ends with that error.
C11_FormatterResolution ==
    [][/\ (pc = "start" /\ pc' # "start") =>
            IF OutputBitsOf(options) \in DOMAIN output_buffer
            THEN /\ pc' = "ready"
                 /\ engine'[1] = "DeepDelta"
                 /\ engine'[2].output[2].fn = output_buffer[OutputBitsOf(options)]
            ELSE /\ pc' = "raised"
                 /\ engine' = Raise("TypeError")
                 /\ result' = Raise("TypeError")
       /\ pc = "raised" => (pc' = "raised" /\ result' = result /\ engine' = engine)
       /\ pc' = "done" => pc \in {"ready", "done"}]_vars

\* construction has failed for keep-all-details alone, which the module
\* registers no formatter for
C11_Witness ==
    /\ pc = "raised"
    /\ OutputBitsOf(options) = OutputKeepAllDetails
    /\ output_buffer = Output_Buffer
    /\ default_type_comparator = DEFAULT_TYPE_COMPARATOR
    /\ engine = Raise("TypeError")
    /\ result = Raise("TypeError")

-----------------------------------------------------------------------------
(* are_equal called with a table of the caller's, beside compare            *)

\* the keys the tables of the caller register
TableKeys == {<<"int", "str">>, <<"str", "int">>, <<"int">>, <<"str">>}
\* every table over some of these keys; the empty one stands for the default
Tables == UNION {[ks -> {"probe_a", "probe_b"}] : ks \in SUBSET TableKeys}

TypedValues ==
    {None, BoolV(TRUE), IntV(1), IntV(2), FloatV(15000), DecimalV(15000), NaN,
     StrV(<<"1">>), StrV(<<"a">>), ListV(<<>>), ListV(<<IntV(1)>>), TupleV(<<IntV(1)>>),
     EmptyDict}

NoneConfigs == {DEFAULT_DELTA_CONFIG, DEFAULT_DELTA_CONFIG + NoneUnequalDefault}

\* are_equal(lhs, rhs, comparators) with the table held in call_args
AreEqual ==
    /\ call_result = None
    /\ call_args[1] = "comparators"
    /\ call_result' = are_equal(lhs, rhs, call_args[2])
    /\ UNCHANGED <<pc, options, named_comparators, keys_excluded, lhs, rhs, engine, result,
                   km_kp, km_key_path, km_case_ignored, km_matched, output_buffer, default_type_comparator, call_args>>

InitTyped ==
    /\ pc = "start"
    /\ engine = None
    /\ result = None
    /\ NoCall
    /\ output_buffer = Output_Buffer
    /\ default_type_comparator = DEFAULT_TYPE_COMPARATOR
    /\ call_result = None
    /\ call_args \in {<<"comparators", t>> : t \in Tables}
    /\ options \in NoneConfigs
    /\ named_comparators = <<>>
    /\ keys_excluded = <<>>
    /\ lhs \in TypedValues
    /\ rhs \in TypedValues

NextTyped == Construct \/ CompareAny \/ AreEqual

SpecTyped == InitTyped /\ [][NextTyped]_vars

\* issubclass(t, Collection) of a type
CollectionType(t) == t \in {"str", "list", "tuple", "dict"}

\* no entry of the table is keyed by the two types, in either order, or by
\* one of them
Unregistered(l, r, table) ==
    {<<TypeOf(l), TypeOf(r)>>, <<TypeOf(r), TypeOf(l)>>, <<TypeOf(l)>>, <<TypeOf(r)>>}
        \cap DOMAIN table = {}

\* the pair gets as far as the typed comparators: it is not equal, and is not
\* two strings, two maps or two sequences
ReachesTyped(l, r) ==
    /\ ~PyEq(l, r)
    /\ ~(IsStr(l) /\ IsStr(r))
    /\ ~(IsMapping(l) /\ IsMapping(r))
    /\ ~(IsSequence(l) /\ IsSequence(r))

\* C12: when the table registers nothing for the two types (no ordered pair,
\* no reversed pair, no single type of either side), are_equal returns
\* NotImplemented if the types differ or the type is a Collection, and
\* lhs == rhs otherwise; the engine, for a pair that gets as far as the typed
\* comparators and has nothing registered, reports a difference.
C12_UnresolvedIsDifferent ==
    /\ (call_result # None /\ Unregistered(lhs, rhs, OrDefault(call_args[2]))) =>
            call_result = IF TypeOf(lhs) # TypeOf(rhs) \/ CollectionType(TypeOf(lhs))
                          THEN NotImplemented
                          ELSE BoolV(PyEq(lhs, rhs))
    /\ (pc = "done" /\ ReachesTyped(lhs, rhs) /\ Unregistered(lhs, rhs, engine[2].typed_equal)) =>
            result = as_delta(engine[2], BoolV(TRUE), lhs, rhs)

\* a bool and an int under a table that registers neither: are_equal returned
\* NotImplemented and compare reported the pair
C12_Witness ==
    /\ pc = "done"
    /\ lhs = BoolV(TRUE)
    /\ rhs = IntV(2)
    /\ call_args[2] = (<<"str">> :> "probe_a")
    /\ call_result = NotImplemented
    /\ result = TupleV(<<lhs, rhs>>)

\* the entry of the table the claim names for the two values, as the key and
\* the arguments in the order the entry is called with; <<>> when none
ResolvedEntry(l, r, table) ==
    IF <<TypeOf(l), TypeOf(r)>> \in DOMAIN table THEN <<<<TypeOf(l), TypeOf(r)>>, l, r>>
    ELSE IF <<TypeOf(r), TypeOf(l)>> \in DOMAIN table THEN <<<<TypeOf(r), TypeOf(l)>>, r, l>>
    ELSE IF <<TypeOf(l)>> \in DOMAIN table THEN <<<<TypeOf(l)>>, l, r>>
    ELSE IF <<TypeOf(r)>> \in DOMAIN table THEN <<<<TypeOf(r)>>, r, l>>
    ELSE <<>>

\* what the entry returns for these arguments
EntryResult(entry, table) == CallComparator(table[entry[1]], entry[2], entry[3])

\* C13: are_equal returns what the first of these entries returns: the one
\* of the ordered pair (L, R) called with (lhs, rhs), else the one of (R, L)
\* called with (rhs, lhs), else the one of L called with (lhs, rhs), else the
\* one of R called with (rhs, lhs); with both ordered pairs, or both single
\* types, registered differently, the left side's entry decides and the call
\* returns.
C13_ResolutionOrder ==
    (call_result # None /\ ~Unregistered(lhs, rhs, OrDefault(call_args[2]))) =>
        /\ call_result = EntryResult(ResolvedEntry(lhs, rhs, OrDefault(call_args[2])),
                                     OrDefault(call_args[2]))
        /\ call_args[2] # <<>> =>
                \E name \in {"probe_a", "probe_b"}, a, b \in {lhs, rhs} :
                    call_result = TupleV(<<StrV(<<name>>), a, b>>)

\* (str, int) and (int, str) are registered with different comparators, and
\* so are str and int: a str on the left is compared by the entry of
\* (str, int), with the arguments as given
C13_Witness ==
    /\ lhs = StrV(<<"1">>)
    /\ rhs = IntV(1)
    /\ call_args[2] = (<<"int", "str">> :> "probe_a") @@ (<<"str", "int">> :> "probe_b")
                        @@ (<<"int">> :> "probe_a") @@ (<<"str">> :> "probe_b")
    /\ call_result = TupleV(<<StrV(<<"probe_b">>), lhs, rhs>>)

-----------------------------------------------------------------------------
(* Numbers of different types, compared by compare and by                   *)
(* compare_number_with_precision                                            *)

\* largest precision compare_number_with_precision is called with
MaxPrecision == 3

NumericValues ==
    {IntV(2), IntV(3)}
        \cup {FloatV(n) : n \in {20000, 24000, 25000, 25500, 26750, 21250, 35000}}
        \cup {DecimalV(n) : n \in {25000, 25472, 26750, 26800, 21250}}
        \cup {StrV(<<"2">>), StrV(<<"3">>), StrV(<<"2", ".", "4">>),
              StrV(<<"2", ".", "5", "4", "7", "2">>), StrV(<<"2", ".", "5", "5">>),
              StrV(<<"2", ".", "6", "7", "5">>), StrV(<<"2", ".", "6", "8">>),
              StrV(<<"2", ".", "1", "3">>)}

NumericConfigs == {DEFAULT_DELTA_CONFIG, DEFAULT_DELTA_CONFIG + OutputWithFlag}

\* compare_number_with_precision(lhs, rhs, precision) with the precision held
\* in call_args
CompareNumber ==
    /\ call_result = None
    /\ call_args[1] = "precision"
    /\ call_result' = compare_number_with_precision(lhs, rhs, call_args[2])
    /\ UNCHANGED <<pc, options, named_comparators, keys_excluded, lhs, rhs, engine, result,
                   km_kp, km_key_path, km_case_ignored, km_matched, output_buffer, default_type_comparator, call_args>>

InitNumeric ==
    /\ pc = "start"
    /\ engine = None
    /\ result = None
    /\ NoCall
    /\ output_buffer = Output_Buffer
    /\ default_type_comparator = DEFAULT_TYPE_COMPARATOR
    /\ call_result = None
    /\ call_args \in {<<"precision", p>> : p \in 0..MaxPrecision}
    /\ options \in NumericConfigs
    /\ named_comparators = <<>>
    /\ keys_excluded = <<>>
    /\ lhs \in NumericValues
    /\ rhs \in NumericValues

NextNumeric == Construct \/ CompareAny \/ CompareNumber

SpecNumeric == InitNumeric /\ [][NextNumeric]_vars

\* C14: for two numbers of different types among int, float, Decimal and
\* numeric str, under the default table, compare(a, b) reports a difference
\* iff compare(b, a) reports one.
C14_NumericCommutativity ==
    (pc = "done" /\ TypeOf(lhs) # TypeOf(rhs)) =>
        \A swapped \in compare(rhs, lhs, options, <<>>, <<>>) :
            /\ ~IsRaise(result)
            /\ ~IsRaise(swapped)
            /\ (result = NotDifferent(engine[2], lhs, rhs)) <=>
                    (swapped = NotDifferent(engine[2], rhs, lhs))

\* 2.55 and "2.5472" are equal in this order, and in the other
C14_Witness ==
    /\ pc = "done"
    /\ options = DEFAULT_DELTA_CONFIG
    /\ lhs = StrV(<<"2", ".", "5", "4", "7", "2">>)
    /\ rhs = FloatV(25500)
    /\ result = None
    /\ compare(rhs, lhs, options, <<>>, <<>>) = {None}

\* the precision the default table compares two types at: 0 where one of them
\* is int, DEFAULT_FLOAT_PRECISION otherwise
PrecisionOf(l, r) ==
    IF "int" \in {TypeOf(l), TypeOf(r)} THEN 0 ELSE DEFAULT_FLOAT_PRECISION

\* the fixed-point rendering of a number or a numeric string
Rendering(v, precision) == FormatFloat(ToFloat(v), precision)

\* C15 as stated: two numbers of different types are equal iff their
\* renderings at the default precision of 2 digits are identical.
C15_DefaultPrecision ==
    (pc = "done" /\ TypeOf(lhs) # TypeOf(rhs)) =>
        ((result = NotDifferent(engine[2], lhs, rhs)) <=>
            (Rendering(lhs, DEFAULT_FLOAT_PRECISION) = Rendering(rhs, DEFAULT_FLOAT_PRECISION)))

\* C15: two numbers of different types among int, float, Decimal and numeric
\* str are equal to compare iff their fixed-point renderings are identical at
\* 0 digits where one of them is an int and at the default 2 digits
\* otherwise; compare_number_with_precision at a given precision returns
\* whether the renderings at that precision are identical.
C15_PrecisionByTypes ==
    /\ (pc = "done" /\ TypeOf(lhs) # TypeOf(rhs)) =>
            ((result = NotDifferent(engine[2], lhs, rhs)) <=>
                (Rendering(lhs, PrecisionOf(lhs, rhs)) = Rendering(rhs, PrecisionOf(lhs, rhs))))
    /\ call_result # None =>
            call_result = BoolV(Rendering(lhs, call_args[2]) = Rendering(rhs, call_args[2]))

\* 2.55 and "2.5472": equal to compare, and different at precision 3
C15_Witness ==
    /\ pc = "done"
    /\ lhs = FloatV(25500)
    /\ rhs = StrV(<<"2", ".", "5", "4", "7", "2">>)
    /\ options = DEFAULT_DELTA_CONFIG
    /\ result = None
    /\ call_args[2] = 3
    /\ call_result = BoolV(FALSE)

-----------------------------------------------------------------------------
(* None compared with a value, at the root and as the values of one key     *)

FalsyValues ==
    {None, IntV(0), BoolV(FALSE), FloatV(0), DecimalV(0), StrV(<<>>), ListV(<<>>),
     TupleV(<<>>), EmptyDict}

TruthyValues ==
    {IntV(1), BoolV(TRUE), FloatV(5000), DecimalV(5000), NaN, StrV(<<"a">>), StrV(<<" ">>),
     StrV(<<"0">>), ListV(<<None>>), TupleV(<<IntV(0)>>), DictV(KeyK :> None)}

NoneOperands == FalsyValues \cup TruthyValues

NonePolicyConfigs ==
    {DEFAULT_DELTA_CONFIG, DEFAULT_DELTA_CONFIG + NoneUnequalDefault, NoneUnequalDefault,
     DEFAULT_DELTA_CONFIG + OutputWithFlag,
     DEFAULT_DELTA_CONFIG + NoneUnequalDefault + OutputWithFlag}

InitNone ==
    /\ Start
    /\ options \in NonePolicyConfigs
    /\ named_comparators = <<>>
    /\ keys_excluded = <<>>
    /\ \E v \in NoneOperands, nested, none_first \in BOOLEAN :
            /\ lhs = IF nested THEN DictV(KeyK :> (IF none_first THEN None ELSE v))
                      ELSE IF none_first THEN None ELSE v
            /\ rhs = IF nested THEN DictV(KeyK :> (IF none_first THEN v ELSE None))
                      ELSE IF none_first THEN v ELSE None

SpecNone == InitNone /\ [][NextCompare]_vars

\* the two values compared with each other: the arguments, or the values of
\* the one key of the two maps
ComparedLeft == IF IsMapping(lhs) /\ IsMapping(rhs) THEN lhs[2][KeyK] ELSE lhs
ComparedRight == IF IsMapping(lhs) /\ IsMapping(rhs) THEN rhs[2][KeyK] ELSE rhs
BothMaps == IsMapping(lhs) /\ IsMapping(rhs)

\* the result reports the two values as different, or as not different
NonePairDifferent ==
    result = IF BothMaps
             THEN DictV(KeyK :> as_delta(engine[2], BoolV(TRUE), ComparedLeft, ComparedRight))
             ELSE as_delta(engine[2], BoolV(TRUE), lhs, rhs)
NonePairEqual == result \in {NotDifferent(engine[2], lhs, rhs)} \cup (IF BothMaps THEN {EmptyDict} ELSE {})

\* C16: with the default table, None against a value v, in either order, is
\* no difference iff v is falsy when NoneUnequalDefault is clear; when it is
\* set, None against every value other than None, the falsy ones included,
\* is a difference.
C16_NonePolicy ==
    (pc = "done" /\ None \in {ComparedLeft, ComparedRight}) =>
        LET v == IF ComparedLeft = None THEN ComparedRight ELSE ComparedLeft
        IN  IF BitAnd(options, NoneUnequalDefault) = 0
            THEN /\ v \in FalsyValues => NonePairEqual
                 /\ v \in TruthyValues => NonePairDifferent
            ELSE v # None => NonePairDifferent

\* 0 on the left and None on the right, with the flag set: a difference
C16_Witness ==
    /\ pc = "done"
    /\ options = DEFAULT_DELTA_CONFIG + NoneUnequalDefault
    /\ lhs = IntV(0)
    /\ rhs = None
    /\ result = TupleV(<<IntV(0), None>>)

-----------------------------------------------------------------------------
(* Maps of nested maps and sequences, under every registered output shape   *)

PrunedValues ==
    {IntV(1), IntV(2), DictV(KeyA :> IntV(1)), DictV(KeyA :> IntV(2)), EmptyDict,
     ListV(<<IntV(1)>>), ListV(<<IntV(2)>>)}

\* the maps with some of the keys a and b
PrunedMaps == UNION {[ks -> PrunedValues] : ks \in SUBSET {KeyA, KeyB}}

\* DEFAULT_DELTA_CONFIG with the output bits of every registered formatter
PruningConfigs == {DEFAULT_DELTA_CONFIG + output_config : output_config \in DOMAIN Output_Buffer}

InitPruning ==
    /\ Start
    /\ options \in PruningConfigs
    /\ \E how \in {"plain", "excluded", "named"} :
            /\ named_comparators = IF how = "named" THEN <<<<KeyB, "lambda: False">>>> ELSE <<>>
            /\ keys_excluded = IF how = "excluded" THEN <<KeyB>> ELSE <<>>
    /\ lhs \in {DictV(m) : m \in PrunedMaps}
    /\ rhs \in {DictV(m) : m \in {n \in PrunedMaps : KeyA \in DOMAIN n}}

SpecPruning == InitPruning /\ [][NextCompare]_vars

\* a map that renders one difference: the two values under LEFT and RIGHT
IsRendering(d) == IsMapping(d) /\ DOMAIN d[2] = {LEFT_KEY, RIGHT_KEY}

\* is the child one that the pruning is to have dropped
Droppable(child, config) ==
    \/ child = None
    \/ IsCollection(child) /\ ~Truthy(child)
    \/ /\ BitAnd(config, OutputFormatMask) \in {OutputWithFlag, OutputAllDetails}
       /\ child[1] = "tuple"
       /\ child[2] # <<>>
       /\ child[2][1] = BoolV(FALSE)

RECURSIVE Pruned(_, _)
\* no child of the map, or of a map of the comparison nested in it, is one to
\* drop
Pruned(d, config) ==
    \A k \in DOMAIN d[2] :
        /\ ~Droppable(d[2][k], config)
        /\ (IsMapping(d[2][k]) /\ ~IsRendering(d[2][k])) => Pruned(d[2][k], config)

\* the keys of the two maps that are not excluded
ComparedKeys == {k \in DOMAIN lhs[2] \cup DOMAIN rhs[2] : k \notin {keys_excluded[i] : i \in 1..Len(keys_excluded)}}

\* C17: with OutputKeepAllDetails clear, no map a comparison of maps or
\* sequences returns has, at any nesting level, a child that is None, an empty
\* composite or, where the output carries the boolean indicator, a tuple whose
\* indicator is false; with it set, the map returned has one child for every
\* compared key, different or not.
C17_PruningInvariant ==
    (pc = "done" /\ IsMapping(result)) =>
        IF BitAnd(options, OutputKeepAllDetails) = 0
        THEN Pruned(result, options)
        ELSE DOMAIN result[2] = ComparedKeys

\* an equal entry, an entry of equal maps and a different entry, pruned to
\* the different one
C17_Witness ==
    /\ pc = "done"
    /\ options = DEFAULT_DELTA_CONFIG + OutputWithFlag
    /\ named_comparators = <<>>
    /\ keys_excluded = <<>>
    /\ lhs = DictV((KeyA :> DictV(KeyA :> IntV(1))) @@ (KeyB :> IntV(1)))
    /\ rhs = DictV((KeyA :> DictV(KeyA :> IntV(2))) @@ (KeyB :> IntV(1)))
    /\ result = DictV(KeyA :> DictV(KeyA :> TupleV(<<BoolV(TRUE), IntV(1), IntV(2)>>)))

-----------------------------------------------------------------------------
(* sequence_to_dict called on sequences of records and of scalars           *)

\* longest sequence converted
MaxRecords == 2

IndexFields == {StrV(<<"i", "d">>), StrV(<<"x", "i", "d">>), StrV(<<"v">>)}
IndexRecords == UNION {{DictV(m) : m \in [ks -> {IntV(1), IntV(2)}]} : ks \in SUBSET IndexFields \ {{}}}
IndexItems == IndexRecords \cup {IntV(1), StrV(<<"a">>)}
IndexSeqs == {ListV(q) : q \in SeqsUpTo(IndexItems, MaxRecords)}

\* sequence_to_dict(seq, is_key, case_ignored) with seq in lhs; is_key is
\* key_denoted_by_id or None
SequenceToDict ==
    /\ call_result = None
    /\ call_args[1] = "sequence_to_dict"
    /\ call_result' = sequence_to_dict(lhs, call_args[2], call_args[3], {})
    /\ UNCHANGED <<pc, options, named_comparators, keys_excluded, lhs, rhs, engine, result,
                   km_kp, km_key_path, km_case_ignored, km_matched, output_buffer, default_type_comparator, call_args>>

InitIndex ==
    /\ pc = "call"
    /\ NoCall
    /\ output_buffer = Output_Buffer
    /\ default_type_comparator = DEFAULT_TYPE_COMPARATOR
    /\ options = 0
    /\ named_comparators = <<>>
    /\ keys_excluded = <<>>
    /\ engine = None
    /\ result = None
    /\ rhs = None
    /\ lhs \in IndexSeqs
    /\ call_result = None
    /\ call_args \in {<<"sequence_to_dict", is_key, ci>> : is_key \in BOOLEAN, ci \in BOOLEAN}

NextIndex == SequenceToDict

SpecIndex == InitIndex /\ [][NextIndex]_vars

\* the field names that denote an identity, in lexicographic order
IdentityFieldsInOrder == <<StrV(<<"i", "d">>), StrV(<<"x", "i", "d">>)>>

\* the identified keys of the sequence: the identity fields every record has,
\* when the items are all records and identities are looked for
Identified(seq, is_key) ==
    IF is_key /\ \A i \in 1..Len(seq[2]) : IsMapping(seq[2][i])
    THEN SelectSeq(IdentityFieldsInOrder, LAMBDA f : \A i \in 1..Len(seq[2]) : f \in DOMAIN seq[2][i][2])
    ELSE <<>>

\* the tuple with its items in ascending order
Ascending(t) ==
    CHOOSE q \in [1..Len(t) -> {t[i] : i \in 1..Len(t)}] :
        /\ \A i, j \in 1..Len(t) : i < j => q[i][2] <= q[j][2]
        /\ \A v \in {t[i] : i \in 1..Len(t)} :
                Cardinality({i \in 1..Len(t) : q[i] = v}) = Cardinality({i \in 1..Len(t) : t[i] = v})

\* the values of the fields in the order of the field names
ValuesOf(item, fields) == [j \in 1..Len(fields) |-> item[2][fields[j]]]

\* the index of the item at position i, given how a tuple of values is built
ExpectedIndex(seq, i, fields, sorted_values) ==
    IF Len(fields) = 0 THEN StrV(IntStr(i - 1))
    ELSE IF Len(fields) = 1 THEN seq[2][i][2][fields[1]]
    ELSE TupleV(IF sorted_values THEN Ascending(ValuesOf(seq[2][i], fields))
                ELSE ValuesOf(seq[2][i], fields))

\* the result is a map whose keys are exactly the indexes of the items and
\* whose values are items of that index
IndexedAs(seq, fields, sorted_values) ==
    /\ IsMapping(call_result)
    /\ DOMAIN call_result[2] = {ExpectedIndex(seq, i, fields, sorted_values) : i \in 1..Len(seq[2])}
    /\ \A i \in 1..Len(seq[2]) :
            \E j \in 1..Len(seq[2]) :
                /\ ExpectedIndex(seq, j, fields, sorted_values) = ExpectedIndex(seq, i, fields, sorted_values)
                /\ call_result[2][ExpectedIndex(seq, i, fields, sorted_values)] = seq[2][j]

-----------------------------------------------------------------------------
(* DeltaConfig.matches called on the configurations of the four low bits    *)

\* largest configuration, flags and mask of the calls: the bits of
\* CaseIgnored and SpaceTrimmed
MaxConfig == 15

\* config.matches(flags, mask); a mask of 0 is the mask left out
Matches ==
    /\ call_result = None
    /\ call_args[1] = "matches"
    /\ call_result' = BoolV(matches(options, call_args[2], call_args[3]))
    /\ UNCHANGED <<pc, options, named_comparators, keys_excluded, lhs, rhs, engine, result,
                   km_kp, km_key_path, km_case_ignored, km_matched, output_buffer, default_type_comparator, call_args>>

InitMatches ==
    /\ pc = "call"
    /\ NoCall
    /\ output_buffer = Output_Buffer
    /\ default_type_comparator = DEFAULT_TYPE_COMPARATOR
    /\ options \in 0..MaxConfig
    /\ named_comparators = <<>>
    /\ keys_excluded = <<>>
    /\ engine = None
    /\ result = None
    /\ lhs = None
    /\ rhs = None
    /\ call_result = None
    /\ call_args \in {<<"matches", flags, mask>> : flags \in 0..MaxConfig, mask \in 0..MaxConfig}

NextMatches == Matches

SpecMatches == InitMatches /\ [][NextMatches]_vars

\* C19 as stated: c.matches(f, m) is true iff (c AND (m OR f)) = f, bit by bit.
C19_MatchesBitwiseOr ==
    call_result # None =>
        call_result = BoolV(BitAnd(options, BitOr(call_args[3], call_args[2])) = call_args[2])

\* C19: c.matches(f, m) is true iff (c AND (m OR f)) = f when no mask is
\* given or the mask has every bit of f; with a mask that lacks a bit of f it
\* is false, whatever c. With no mask this is: every bit of f is set in c.
C19_MatchesMaskOrFlags ==
    call_result # None =>
        /\ call_result =
                IF call_args[3] = 0 \/ BitAnd(call_args[2], call_args[3]) = call_args[2]
                THEN BoolV(BitAnd(options, BitOr(call_args[3], call_args[2])) = call_args[2])
                ELSE BoolV(FALSE)
        /\ call_args[3] = 0 => call_result = BoolV(BitAnd(options, call_args[2]) = call_args[2])

\* KeySpaceTrimmed within the mask SpaceTrimmed, of a configuration that has
\* KeySpaceTrimmed and KeyCaseIgnored
C19_Witness ==
    /\ options = KeySpaceTrimmed + KeyCaseIgnored
    /\ call_args = <<"matches", KeySpaceTrimmed, SpaceTrimmed>>
    /\ call_result = BoolV(TRUE)

-----------------------------------------------------------------------------
(* A bool or a datetime compared with a str, at the root and nested          *)

\* the bools and datetimes compared
ConvertedValues ==
    {BoolV(TRUE), BoolV(FALSE), DatetimeV(2010, 10, 7, 0, 0, 0), DatetimeV(2010, 10, 7, 1, 2, 3)}

\* the strs they are compared with: tokens of TRUE_VALUES and FALSE_VALUES,
\* dates under some format of DATETIME_FORMATS, and strs that are neither
ConvertedStrs ==
    {StrV(<<"T", "r", "u", "e">>), StrV(<<"n", "o">>), StrV(<<"t", "r", "u", "e">>),
     StrV(<<"m", "a", "y", "b", "e">>), StrV(<<>>),
     StrV(<<"2", "0", "1", "0", "-", "1", "0", "-", "0", "7">>),
     StrV(<<"7", "/", "1", "0", "/", "2", "0", "1", "0">>),
     StrV(<<"2", "0", "1", "0", " ", "O", "c", "t", " ", "7">>),
     StrV(<<"2", "0", "1", "0", "-", "1", "0", "-", "0", "7", " ", "0", "1", ":", "0", "2", ":", "0", "3">>),
     StrV(<<"2", "0", "1", "0", "-", "1", "3", "-", "0", "7">>),
     StrV(<<"3", "1", "/", "0", "4", "/", "2", "0", "1", "0">>),
     StrV(<<"2", "0", "1", "0", "-", "1", "0", "-", "0", "7", " ", "2", "4", ":", "0", "0", ":", "0", "0">>)}

\* where the pair is: the arguments themselves, the values of one key, the
\* one items of two lists, or those within each other
Shapes == {"root", "map", "sequence", "map of sequence", "sequence of map"}

Shaped(shape, v) ==
    CASE shape = "root" -> v
      [] shape = "map" -> DictV(KeyK :> v)
      [] shape = "sequence" -> ListV(<<v>>)
      [] shape = "map of sequence" -> DictV(KeyK :> ListV(<<v>>))
      [] shape = "sequence of map" -> ListV(<<DictV(KeyK :> v)>>)

\* configurations compare accepts, with every registered output shape
ConversionConfigs ==
    {base + output_config :
        base \in {0, ValueCaseIgnored + ValueSpaceTrimmed, DEFAULT_DELTA_CONFIG,
                  DEFAULT_DELTA_CONFIG + NoneUnequalDefault},
        output_config \in DOMAIN Output_Buffer}

InitConversion ==
    /\ Start
    /\ options \in ConversionConfigs
    /\ named_comparators = <<>>
    /\ keys_excluded = <<>>
    /\ \E v \in ConvertedValues, s \in ConvertedStrs, shape \in Shapes, str_first \in BOOLEAN :
            /\ lhs = Shaped(shape, IF str_first THEN s ELSE v)
            /\ rhs = Shaped(shape, IF str_first THEN v ELSE s)

SpecConversion == InitConversion /\ [][NextCompare]_vars

RECURSIVE LeafOf(_)
\* the value within the maps of one key and the lists of one item
LeafOf(v) ==
    IF IsMapping(v) /\ DOMAIN v[2] = {KeyK} THEN LeafOf(v[2][KeyK])
    ELSE IF v[1] = "list" /\ Len(v[2]) = 1 THEN LeafOf(v[2][1])
    ELSE v

\* the str is no token of a bool, or no date under any of the formats
CannotConvert(other, s) ==
    /\ IsStr(s)
    /\ \/ TypeOf(other) = "bool" /\ s \notin (TRUE_VALUES \cup FALSE_VALUES)
       \/ TypeOf(other) = "datetime" /\ FormatsOf(s[2]) = {}

Unconvertible(l, r) == CannotConvert(l, r) \/ CannotConvert(r, l)

\* C20: when compare reaches a bool and a str that is in neither TRUE_VALUES
\* nor FALSE_VALUES, or a datetime and a str that parses under none of
\* DATETIME_FORMATS, at the root or within maps and sequences, in either
\* order, it ends with ValueError and returns no delta; when the str can be
\* converted it ends without an error.
C20_ConversionErrorsPropagate ==
    pc = "done" =>
        IF Unconvertible(LeafOf(lhs), LeafOf(rhs))
        THEN result = Raise("ValueError")
        ELSE ~IsRaise(result)

\* a datetime in a list in a map against a str with month 13
C20_Witness ==
    /\ pc = "done"
    /\ options = DEFAULT_DELTA_CONFIG
    /\ lhs = DictV(KeyK :> ListV(<<DatetimeV(2010, 10, 7, 0, 0, 0)>>))
    /\ rhs = DictV(KeyK :> ListV(<<StrV(<<"2", "0", "1", "0", "-", "1", "3", "-", "0", "7">>)>>))
    /\ result = Raise("ValueError")

-----------------------------------------------------------------------------
(* Two strs compared under the four policies of the value flags             *)

\* the strs of up to MaxStrLen characters over a letter in both cases and the
\* blank
MaxStrLen == 2
ValueChars == {"a", "A", " "}
ValueStrs == UNION {[1..n -> ValueChars] : n \in 0..MaxStrLen}

\* the four combinations of the value flags, with and without the flags of
\* the keys and with a flagged output; 0 stands for no configuration
StringConfigs ==
    {0} \cup {value_flags + base :
                value_flags \in {0, ValueCaseIgnored, ValueSpaceTrimmed,
                                 ValueCaseIgnored + ValueSpaceTrimmed},
                base \in {KeyCaseIgnored, KeyCaseIgnored + KeySpaceTrimmed + IdAsKey + MissingAsNone,
                          KeyCaseIgnored + OutputWithFlag}}

InitStrings ==
    /\ Start
    /\ options \in StringConfigs
    /\ named_comparators = <<>>
    /\ keys_excluded = <<>>
    /\ \E l \in ValueStrs, r \in ValueStrs, nested \in BOOLEAN :
            /\ lhs = IF nested THEN DictV(KeyK :> StrV(l)) ELSE StrV(l)
            /\ rhs = IF nested THEN DictV(KeyK :> StrV(r)) ELSE StrV(r)

SpecStrings == InitStrings /\ [][NextCompare]_vars

\* the str as the configuration of the engine reads it
PolicyForm(s, config) ==
    IF BitAnd(config, ValueCaseIgnored) # 0
    THEN casefold(IF BitAnd(config, ValueSpaceTrimmed) # 0 THEN strip(s) ELSE s)
    ELSE IF BitAnd(config, ValueSpaceTrimmed) # 0 THEN strip(s) ELSE s

\* the result says that the two strs are not different: for two maps the
\* empty map or, when the maps are equal, the rendering of "not different"
StringsNotDifferent ==
    \/ result = NotDifferent(engine[2], lhs, rhs) /\ (BothMaps => lhs = rhs)
    \/ result = EmptyDict /\ BothMaps
\* the result says that they are different
StringsDifferent ==
    IF BothMaps
    THEN result = DictV(KeyK :> as_delta(engine[2], BoolV(TRUE), ComparedLeft, ComparedRight))
    ELSE result = as_delta(engine[2], BoolV(TRUE), lhs, rhs)

\* C21: two strs, at the root or under one key, with no named comparator,
\* are reported as not different iff they are equal after casefold() when
\* ValueCaseIgnored is set in the engine's configuration and after strip()
\* when ValueSpaceTrimmed is set; with both flags clear only equal strs are
\* not different. A configuration of no bits is DEFAULT_DELTA_CONFIG.
C21_StringValuePolicy ==
    pc = "done" =>
        /\ IF PolicyForm(ComparedLeft[2], engine[2].config) = PolicyForm(ComparedRight[2], engine[2].config)
           THEN StringsNotDifferent
           ELSE StringsDifferent
        /\ engine[2].config = (IF options = 0 THEN DEFAULT_DELTA_CONFIG ELSE options)
        /\ BitAnd(engine[2].config, ValueCaseIgnored + ValueSpaceTrimmed) = 0
                => (StringsNotDifferent <=> ComparedLeft = ComparedRight)

\* ' A' against 'a ' with both flags set: not different
C21_Witness ==
    /\ pc = "done"
    /\ options = KeyCaseIgnored + ValueCaseIgnored + ValueSpaceTrimmed
    /\ lhs = StrV(<<" ", "A">>)
    /\ rhs = StrV(<<"a", " ">>)
    /\ result = None

-----------------------------------------------------------------------------
(* sequence_to_dict called on sequences whose records share identity values *)

\* longest sequence with repeated identities
MaxDuplicates == 3

\* the values of the field id: 1, 1.0 and True are equal as keys of a dict
DuplicateIds == {IntV(1), IntV(2), FloatV(10000), BoolV(TRUE), StrV(<<"a">>)}

\* records of the fields id and v, and of id, xid and v; v tells the records
\* of one identity apart
DuplicateRecords ==
    {DictV((StrV(<<"i", "d">>) :> id) @@ (StrV(<<"v">>) :> IntV(v))) :
        id \in DuplicateIds, v \in 1..MaxDuplicates}
PairedRecords ==
    {DictV((StrV(<<"i", "d">>) :> IntV(id)) @@ (StrV(<<"x", "i", "d">>) :> IntV(xid))
           @@ (StrV(<<"v">>) :> IntV(v))) :
        id \in 1..2, xid \in 1..2, v \in 1..MaxDuplicates}
DuplicateSeqs ==
    {ListV(q) : q \in UNION {[1..n -> DuplicateRecords] \cup [1..n -> PairedRecords] :
                                n \in 1..MaxDuplicates}}

InitDuplicates ==
    /\ pc = "call"
    /\ NoCall
    /\ output_buffer = Output_Buffer
    /\ default_type_comparator = DEFAULT_TYPE_COMPARATOR
    /\ options = 0
    /\ named_comparators = <<>>
    /\ keys_excluded = <<>>
    /\ engine = None
    /\ result = None
    /\ rhs = None
    /\ lhs \in DuplicateSeqs
    /\ call_result = None
    /\ call_args \in {<<"sequence_to_dict", is_key, ci>> : is_key \in BOOLEAN, ci \in BOOLEAN}

SpecDuplicates == InitDuplicates /\ [][NextIndex]_vars

\* the index value the item at position i computes
ComputedIndex(i) == ExpectedIndex(lhs, i, Identified(lhs, call_args[2]), FALSE)

\* the last position whose index value is equal to that of position i
LastOfIndex(i) == SetMax({j \in 1..Len(lhs[2]) : PyEq(ComputedIndex(j), ComputedIndex(i))})

\* C22: when items of a sequence compute the same index value, the
\* conversion raises no error, the map has one entry for that index, its
\* value is the item that comes last in the sequence, and the size of the
\* map is the number of distinct index values.
C22_DuplicateIndexLastWins ==
    call_result # None =>
        /\ IsMapping(call_result)
        /\ \A i \in 1..Len(lhs[2]) :
                /\ Cardinality({k \in DOMAIN call_result[2] : PyEq(k, ComputedIndex(i))}) = 1
                /\ \A k \in DOMAIN call_result[2] :
                        PyEq(k, ComputedIndex(i)) => call_result[2][k] = lhs[2][LastOfIndex(i)]
        /\ Cardinality(DOMAIN call_result[2]) = Cardinality({LastOfIndex(i) : i \in 1..Len(lhs[2])})

\* three records, the first and the third of identity 1: the third is kept
C22_Witness ==
    /\ call_args = <<"sequence_to_dict", TRUE, TRUE>>
    /\ lhs = ListV(<<DictV((StrV(<<"i", "d">>) :> IntV(1)) @@ (StrV(<<"v">>) :> IntV(1))),
                     DictV((StrV(<<"i", "d">>) :> IntV(2)) @@ (StrV(<<"v">>) :> IntV(2))),
                     DictV((StrV(<<"i", "d">>) :> IntV(1)) @@ (StrV(<<"v">>) :> IntV(3)))>>)
    /\ call_result = DictV((IntV(1) :> lhs[2][3]) @@ (IntV(2) :> lhs[2][2]))

-----------------------------------------------------------------------------
(* Tables of several named comparators whose specifiers match the same path *)

\* most entries of a table
MaxNamed == 3

\* specifiers that match the path '>a', '>k>a' or both, and the root
OverlappingSpecs ==
    {StrV(<<"a">>), StrV(<<"A">>), StrV(<<">", "a">>), StrV(<<"k", ">", "a">>), StrV(<<>>),
     <<"pattern", [ic |-> FALSE, toks |-> <<[k |-> "dotstar", c |-> ".*"], [k |-> "lit", c |-> "a"]>>]>>}

\* the tables: the specifiers of a dict are distinct, its order is that of
\* insertion
NamedTables ==
    UNION {{t \in [1..n -> OverlappingSpecs \X {"probe_a", "probe_b"}] :
                \A i, j \in 1..n : i # j => t[i][1] # t[j][1]} : n \in 0..MaxNamed}

\* values that differ in every leaf: scalars, maps of the key a, and maps of
\* the key k of such maps
OverlapPairs ==
    {<<IntV(1), IntV(2)>>,
     <<DictV(KeyA :> IntV(1)), DictV(KeyA :> IntV(2))>>,
     <<DictV(KeyK :> DictV(KeyA :> IntV(1))), DictV(KeyK :> DictV(KeyA :> IntV(2)))>>}

InitOverlap ==
    /\ Start
    /\ options \in {DEFAULT_DELTA_CONFIG, DEFAULT_DELTA_CONFIG - KeyCaseIgnored}
    /\ named_comparators \in NamedTables
    /\ keys_excluded = <<>>
    /\ \E pair \in OverlapPairs : lhs = pair[1] /\ rhs = pair[2]

SpecOverlap == InitOverlap /\ [][NextCompare]_vars

\* the entries of the table whose specifier matches the path, by position
Matching(path) ==
    {i \in 1..Len(named_comparators) :
        IsTrue(key_matches(named_comparators[i][1], StrV(path), BitAnd(engine[2].config, KeyCaseIgnored) # 0))}

\* what the first matching entry's comparator returns for the node
Invoked(l, r, path) == CallNamed(named_comparators[SetMin(Matching(path))][2], l, r, path)

RECURSIVE ExpectedEntries(_, _, _)
\* the delta of the entry at the path: what the one comparator invoked
\* returns, or the comparison of the two values
ExpectedEntry(l, r, path) ==
    IF Matching(path) # {} THEN Invoked(l, r, path)
    ELSE IF IsMapping(l) THEN ExpectedEntries(l, r, path)
    ELSE TupleV(<<l, r>>)

\* the delta of two maps of the same keys
ExpectedEntries(l, r, path) ==
    DictV([k \in {j \in DOMAIN l[2] :
                    delta_to_keep(engine[2], ExpectedEntry(l[2][j], r[2][j], PathOf(path, j)))} |->
                ExpectedEntry(l[2][k], r[2][k], PathOf(path, k))])

\* C23: when several specifiers of the table match the key path of a node,
\* the one comparator invoked for the node is that of the first of them in
\* the order of the table: the delta of the node is what that comparator
\* returns (rendered by the formatter at the root), and the entries after it
\* have no effect on the result.
C23_FirstNamedMatchWins ==
    pc = "done" =>
        result = IF Matching(<<>>) # {} THEN as_delta(engine[2], Invoked(lhs, rhs, <<>>), lhs, rhs)
                 ELSE ExpectedEntry(lhs, rhs, <<>>)

\* the name 'a', the full path '>k>a' and the pattern '.*a' all match the
\* path '>k>a': the comparator of 'a' is the one invoked
C23_Witness ==
    /\ pc = "done"
    /\ options = DEFAULT_DELTA_CONFIG
    /\ named_comparators =
            <<<<StrV(<<"a">>), "probe_b">>,
              <<StrV(<<"k", ">", "a">>), "probe_a">>,
              <<<<"pattern", [ic |-> FALSE, toks |-> <<[k |-> "dotstar", c |-> ".*"], [k |-> "lit", c |-> "a"]>>]>>,
                "probe_a">>>>
    /\ lhs = DictV(KeyK :> DictV(KeyA :> IntV(1)))
    /\ result = DictV(KeyK :> DictV(KeyA :>
                    TupleV(<<StrV(<<"probe_b">>), IntV(1), IntV(2), StrV(<<">", "k", ">", "a">>)>>)))

-----------------------------------------------------------------------------
(* set_output and get_output called in any order on the formatter table     *)

\* configurations the two functions are called with: output bits with and
\* without bits that are not output bits
RegistryConfigs ==
    {OutputDefault, DEFAULT_DELTA_CONFIG, OutputKeepAllDetails, OutputKeepAllDetails + KeyCaseIgnored,
     OutputWithFlag + MissingAsNone, OutputIncludeValueTypes, OutputFormatMask + DEFAULT_DELTA_CONFIG}

\* old_output = set_output(config, output)
SetOutputCall ==
    /\ pc = "call"
    /\ \E config \in RegistryConfigs, output \in FormattersSet :
            /\ call_args' = <<"set_output", config, output>>
            /\ call_result' = old_output(output_buffer, config)
            /\ output_buffer' = set_output(output_buffer, config, output)
    /\ UNCHANGED <<options, named_comparators, keys_excluded, lhs, rhs, pc, engine, result,
                   km_kp, km_key_path, km_case_ignored, km_matched, default_type_comparator>>

\* output = get_output(config)
GetOutputCall ==
    /\ pc = "call"
    /\ \E config \in RegistryConfigs :
            /\ call_args' = <<"get_output", config>>
            /\ call_result' = get_output(config)
    /\ UNCHANGED <<options, named_comparators, keys_excluded, lhs, rhs, pc, engine, result,
                   km_kp, km_key_path, km_case_ignored, km_matched, output_buffer, default_type_comparator>>

InitRegistry ==
    /\ pc = "call"
    /\ NoCall
    /\ output_buffer = Output_Buffer
    /\ default_type_comparator = DEFAULT_TYPE_COMPARATOR
    /\ options = 0
    /\ named_comparators = <<>>
    /\ keys_excluded = <<>>
    /\ engine = None
    /\ result = None
    /\ lhs = None
    /\ rhs = None
    /\ call_args = None
    /\ call_result = None

NextRegistry == SetOutputCall \/ GetOutputCall

SpecRegistry == InitRegistry /\ [][NextRegistry]_vars

\* the five output bits of the configuration of the call made by the step
CalledBits == BitAnd(call_args'[2], OutputFormatMask)

\* C24: set_output(c, f) puts f under the five output bits of c, whatever
\* the other bits of c, returns what was registered under them before, or
\* None, and changes no other entry; get_output(c) changes nothing and
\* resolves to what is registered under the five output bits of c, so after
\* any sequence of registrations to the one registered last under them.
C24_FormatterRegistry ==
    [][/\ call_args'[1] = "set_output" =>
            /\ DOMAIN output_buffer' = DOMAIN output_buffer \cup {CalledBits}
            /\ output_buffer'[CalledBits] = call_args'[3]
            /\ \A k \in DOMAIN output_buffer \ {CalledBits} : output_buffer'[k] = output_buffer[k]
            /\ call_result' = IF CalledBits \in DOMAIN output_buffer
                              THEN <<"function", output_buffer[CalledBits]>>
                              ELSE None
       /\ call_args'[1] = "get_output" =>
            /\ output_buffer' = output_buffer
            /\ IF CalledBits \in DOMAIN output_buffer
               THEN call_result'[1] = "output" /\ call_result'[2].fn = output_buffer[CalledBits]
               ELSE call_result' = Raise("TypeError")]_vars

\* get_output of keep-all-details with a key flag, after as_none_or_str was
\* registered under keep-all-details in place of as_tuple
C24_Witness ==
    /\ OutputKeepAllDetails \in DOMAIN output_buffer
    /\ output_buffer[OutputKeepAllDetails] = "as_none_or_str"
    /\ output_buffer[OutputDefault] = "as_tuple"
    /\ call_args = <<"get_output", OutputKeepAllDetails + KeyCaseIgnored>>
    /\ call_result = <<"output", [fn |-> "as_none_or_str", abbrev |-> FALSE]>>

-----------------------------------------------------------------------------
(* Maps with keys of every supported type: the same keys on both sides      *)

\* most keys of a map
MaxKeys == 2

\* str, int, float, Decimal, datetime and tuple keys; 2.55 is written the same
\* by str() and by normalize, 2.5 and Decimal('0.5') are not
TypedKeys ==
    {KeyA, StrV(<<"B">>), IntV(1), FloatV(25000), FloatV(25500), DecimalV(5000),
     DatetimeV(2010, 10, 7, 0, 0, 0), TupleV(<<IntV(1), StrV(<<"b">>)>>)}
KeyedValues == {IntV(1), IntV(2)}
KeyedMaps == UNION {[ks -> KeyedValues] : ks \in {s \in SUBSET TypedKeys : Cardinality(s) \in 1..MaxKeys}}
KeyTypeConfigs == {0, KeyCaseIgnored, MissingAsNone, KeyCaseIgnored + MissingAsNone + NoneUnequalDefault}

InitKeyTypes ==
    /\ Start
    /\ options \in KeyTypeConfigs
    /\ named_comparators = <<>>
    /\ keys_excluded = <<>>
    /\ \E l \in KeyedMaps, r \in KeyedMaps :
            /\ DOMAIN l = DOMAIN r
            /\ lhs = DictV(l)
            /\ rhs = DictV(r)

SpecKeyTypes == InitKeyTypes /\ [][NextCompare]_vars

\* the entry of key k in the result compares the values the two sides hold
\* under k: absent when they are equal, their pair when they differ
EntryOfHeldValues(k) ==
    LET key == normalize(k, matches(engine[2].config, KeyCaseIgnored, 0), FALSE)
    IN  IF lhs[2][k] = rhs[2][k] THEN key \notin DOMAIN result[2]
        ELSE key \in DOMAIN result[2] /\ result[2][key] = TupleV(<<lhs[2][k], rhs[2][k]>>)

\* str(k) is the normalized form of k but for its case
WrittenAsNormalized(k) == casefold(PyStr(k)) = casefold(PyStr(normalize(k, FALSE, FALSE)))

\* C25: every key present in a side's map, of any supported type, resolves to
\* a key of that side, so that two maps with the same keys are compared value
\* by value under every key: the result of two maps that are not equal is a
\* map that has, for every key whose values differ, the pair of the two values
\* held, and no entry for a key whose values are equal
C25_PresentKeysResolve ==
    (pc = "done" /\ lhs # rhs) => result[1] = "dict" /\ \A k \in DOMAIN lhs[2] : EntryOfHeldValues(k)

\* the keys that str() writes as normalize does resolve, when no tuple key
\* stands beside them
C25_KeysWrittenAsNormalizedResolve ==
    (pc = "done" /\ lhs # rhs /\ \A k \in DOMAIN lhs[2] : k[1] # "tuple")
        => result[1] = "dict" /\ \A k \in DOMAIN lhs[2] : WrittenAsNormalized(k) => EntryOfHeldValues(k)

\* a float key written otherwise by str() is read as missing on both sides
C25_FloatKeyReadAsMissing ==
    /\ pc = "done"
    /\ lhs = DictV(FloatV(25000) :> IntV(1))
    /\ rhs = DictV(FloatV(25000) :> IntV(2))
    /\ result = EmptyDict

-----------------------------------------------------------------------------
(* An empty sequence compared with a sequence that has elements             *)

\* most elements of the sequence that is not empty
MaxElements == 2

Elements == {IntV(1), IntV(2)}
SequenceOf(kind, items) == <<kind, items>>
EmptySequences == {SequenceOf(kind, <<>>) : kind \in {"list", "tuple"}}
FilledSequences ==
    {SequenceOf(kind, items) : kind \in {"list", "tuple"},
                               items \in UNION {[1..n -> Elements] : n \in 1..MaxElements}}
EmptyConfigs == {0, MissingAsNone, KeyCaseIgnored + IdAsKey}

InitEmpty ==
    /\ Start
    /\ options \in EmptyConfigs
    /\ named_comparators = <<>>
    /\ keys_excluded = <<>>
    /\ \E empty \in EmptySequences, filled \in FilledSequences, left \in BOOLEAN, nested \in BOOLEAN :
            /\ lhs = IF nested THEN DictV(KeyK :> (IF left THEN empty ELSE filled))
                     ELSE IF left THEN empty ELSE filled
            /\ rhs = IF nested THEN DictV(KeyK :> (IF left THEN filled ELSE empty))
                     ELSE IF left THEN filled ELSE empty

SpecEmpty == InitEmpty /\ [][NextCompare]_vars

\* the two sequences compared, at the root or under the key
LeftSequence == IF IsMapping(lhs) THEN lhs[2][KeyK] ELSE lhs
RightSequence == IF IsMapping(rhs) THEN rhs[2][KeyK] ELSE rhs

\* what stands for an element the empty side does not have
Placeholder == IF matches(engine[2].config, MissingAsNone, 0) THEN None ELSE MISSING

\* every element of the side that has elements against the placeholder, by
\* the position of the element
ElementsAgainstMissing ==
    LET filled == IF Len(LeftSequence[2]) = 0 THEN RightSequence[2] ELSE LeftSequence[2]
    IN  DictV([key \in {StrV(IntStr(i - 1)) : i \in 1..Len(filled)} |->
                LET element == filled[CHOOSE i \in 1..Len(filled) : StrV(IntStr(i - 1)) = key]
                IN  IF Len(LeftSequence[2]) = 0 THEN TupleV(<<Placeholder, element>>)
                    ELSE TupleV(<<element, Placeholder>>)])

\* C26: an empty sequence compared with a sequence that has elements, at the
\* root or under a map key, does not raise: the result has every element of
\* the other side against a missing value, and the empty sequence converts to
\* the empty map
C26_EmptySequenceCompared ==
    pc = "done" =>
        /\ ~IsRaise(result)
        /\ result = IF IsMapping(lhs) THEN DictV(KeyK :> ElementsAgainstMissing) ELSE ElementsAgainstMissing
        /\ \A s \in {LeftSequence, RightSequence} :
                Len(s[2]) = 0 => sequence_to_dict(s, FALSE, TRUE, {}) = EmptyDict

\* what the comparison does: sequence_to_dict reads the first item of the empty
\* sequence and raises IndexError
C26_EmptySequenceRaises ==
    pc = "done" =>
        /\ result = Raise("IndexError")
        /\ \A s \in {LeftSequence, RightSequence} :
                Len(s[2]) = 0 => sequence_to_dict(s, FALSE, TRUE, {}) = Raise("IndexError")

-----------------------------------------------------------------------------
(* Sequences of records whose sides carry different identity fields         *)

\* most records of a sequence
MaxAligned == 2

FieldId == StrV(<<"i", "d">>)
FieldXid == StrV(<<"x", "i", "d">>)
FieldV == StrV(<<"v">>)
\* the fields the records of one side have: v, with id, xid, both or neither
FieldSets == {{FieldV} \cup ids : ids \in SUBSET {FieldId, FieldXid}}
\* record i of a side: its identity fields hold i
AlignedRecord(fields, i) == DictV([f \in fields |-> IF f = FieldV THEN IntV(7) ELSE IntV(i)])
AlignedSeqs(fields) ==
    {ListV([i \in 1..n |-> AlignedRecord(fields, IF reversed THEN n + 1 - i ELSE i)]) :
        n \in 1..MaxAligned, reversed \in BOOLEAN}
AlignConfigs == {0, KeyCaseIgnored + IdAsKey + MissingAsNone, KeyCaseIgnored + MissingAsNone}

InitAlign ==
    /\ Start
    /\ options \in AlignConfigs
    /\ named_comparators = <<>>
    /\ keys_excluded = <<>>
    /\ \E l_fields \in FieldSets, r_fields \in FieldSets :
            /\ lhs \in AlignedSeqs(l_fields)
            /\ rhs \in AlignedSeqs(r_fields)

SpecAlign == InitAlign /\ [][NextCompare]_vars

\* the field names sequence_to_dict indexes a side by, given the keys that
\* compare_sequence passes to it for both sides
AlignFields(seq) ==
    guess_keys(seq, matches(engine[2].config, IdAsKey, 0), matches(engine[2].config, KeyCaseIgnored, 0),
               SharedIdentity(engine[2], lhs, rhs))[2]

\* the comparison of the two sequences indexed by the given fields
AlignedBy(fields) ==
    compare_dict(IndexedBy(Items(lhs), SortedKeys(fields)), IndexedBy(Items(rhs), SortedKeys(fields)),
                 <<>>, engine[2])

\* C27: both sequences are converted to maps by one and the same set of
\* identity fields, those identified on both sides: the fields that index
\* the left are the fields that index the right, and the result is the
\* comparison of the two sequences indexed by the fields identified on both
C27_CommonAlignmentKey ==
    (pc = "done" /\ lhs # rhs) =>
        /\ AlignFields(lhs) = AlignFields(rhs)
        /\ AlignFields(lhs) = SharedIdentity(engine[2], lhs, rhs)
        /\ result \in AlignedBy(SharedIdentity(engine[2], lhs, rhs))

\* the sides are indexed alike when some identity field is on both sides, or
\* none on either
C27_SharedFieldAligns ==
    (/\ pc = "done"
     /\ lhs # rhs
     /\ \/ SharedIdentity(engine[2], lhs, rhs) # {}
        \/ AlignFields(lhs) \cup AlignFields(rhs) = {})
        => /\ AlignFields(lhs) = AlignFields(rhs)
           /\ result \in AlignedBy(SharedIdentity(engine[2], lhs, rhs))

\* the left is indexed by id and the right by xid
C27_IndexedByDifferentFields ==
    /\ pc = "done"
    /\ AlignFields(lhs) = {FieldId}
    /\ AlignFields(rhs) = {FieldXid}

-----------------------------------------------------------------------------
(* The two process-wide tables changed around the construction of an engine *)

\* most entries of each table that differ from the table of the module
MaxChanges == 2

\* the entries that are registered, replaced and removed, and what is put there
ChangedOutputs == {OutputDefault, OutputWithFlag}
ChangedTypes == {<<"int", "str">>, <<"NoneType">>}
ComparatorsSet == {"lambda: False"}

\* the entries of a table that are not what the module defines
ChangesOf(table, original) ==
    {k \in DOMAIN table \cup DOMAIN original :
        k \notin DOMAIN table \/ k \notin DOMAIN original \/ table[k] # original[k]}

\* a table without the entry of k
Removed(table, k) == [j \in DOMAIN table \ {k} |-> table[j]]

\* set_output(config, output), at any time
RegisterOutput ==
    /\ \E config \in ChangedOutputs, output \in FormattersSet :
            output_buffer' = set_output(output_buffer, config, output)
    /\ Cardinality(ChangesOf(output_buffer', Output_Buffer)) <= MaxChanges
    /\ UNCHANGED <<options, named_comparators, keys_excluded, lhs, rhs, pc, engine, result,
                   km_kp, km_key_path, km_case_ignored, km_matched, default_type_comparator,
                   call_args, call_result>>

\* del Output_Buffer[config], at any time
RemoveOutput ==
    /\ \E config \in ChangedOutputs \cap DOMAIN output_buffer :
            output_buffer' = Removed(output_buffer, config)
    /\ Cardinality(ChangesOf(output_buffer', Output_Buffer)) <= MaxChanges
    /\ UNCHANGED <<options, named_comparators, keys_excluded, lhs, rhs, pc, engine, result,
                   km_kp, km_key_path, km_case_ignored, km_matched, default_type_comparator,
                   call_args, call_result>>

\* DEFAULT_TYPE_COMPARATOR[types] = comparator, at any time
RegisterComparator ==
    /\ \E types \in ChangedTypes, comparator \in ComparatorsSet :
            default_type_comparator' =
                [k \in DOMAIN default_type_comparator \cup {types} |->
                    IF k = types THEN comparator ELSE default_type_comparator[k]]
    /\ Cardinality(ChangesOf(default_type_comparator', DEFAULT_TYPE_COMPARATOR)) <= MaxChanges
    /\ UNCHANGED <<options, named_comparators, keys_excluded, lhs, rhs, pc, engine, result,
                   km_kp, km_key_path, km_case_ignored, km_matched, output_buffer,
                   call_args, call_result>>

\* del DEFAULT_TYPE_COMPARATOR[types], at any time
RemoveComparator ==
    /\ \E types \in ChangedTypes \cap DOMAIN default_type_comparator :
            default_type_comparator' = Removed(default_type_comparator, types)
    /\ Cardinality(ChangesOf(default_type_comparator', DEFAULT_TYPE_COMPARATOR)) <= MaxChanges
    /\ UNCHANGED <<options, named_comparators, keys_excluded, lhs, rhs, pc, engine, result,
                   km_kp, km_key_path, km_case_ignored, km_matched, output_buffer,
                   call_args, call_result>>

SnapshotConfigs == {0, DEFAULT_DELTA_CONFIG + OutputWithFlag, DEFAULT_DELTA_CONFIG + NoneUnequalDefault}
\* pairs compared through the entries that change: int with str, None with int
SnapshotPairs ==
    {<<IntV(1), StrV(<<"1">>)>>, <<IntV(1), StrV(<<"2">>)>>, <<None, IntV(0)>>,
     <<DictV(KeyK :> IntV(1)), DictV(KeyK :> StrV(<<"1">>))>>}

InitSnapshot ==
    /\ Start
    /\ options \in SnapshotConfigs
    /\ named_comparators = <<>>
    /\ keys_excluded = <<>>
    /\ \E pair \in SnapshotPairs : lhs = pair[1] /\ rhs = pair[2]

NextSnapshot ==
    \/ Construct
    \/ CompareAny
    \/ RegisterOutput
    \/ RemoveOutput
    \/ RegisterComparator
    \/ RemoveComparator

SpecSnapshot == InitSnapshot /\ [][NextSnapshot]_vars

\* what a comparison run now by the engine constructed can return
ComparisonNow == compare_any(lhs, rhs, <<>>, engine[2])

\* C28: the formatter and the type-comparator table of an engine constructed
\* without a custom table are fixed at its construction: whatever is
\* registered, replaced or removed in the formatter table and in the default
\* type-comparator table before the comparison or after it, the comparison
\* the engine has run returned the one result that a comparison run by it
\* returns with the tables as they are now
C28_ConstructionSnapshot == pc = "done" => ComparisonNow = {result}

\* a comparison has run after both tables were changed under the engine: 1
\* and '1' are not different, by the comparator and the formatter the engine
\* was constructed with
C28_Witness ==
    /\ pc = "done"
    /\ lhs = IntV(1)
    /\ rhs = StrV(<<"1">>)
    /\ result = None
    /\ <<"int", "str">> \in DOMAIN engine[2].typed_equal
    /\ engine[2].typed_equal[<<"int", "str">>] = "with_precision(0)"
    /\ <<"int", "str">> \in DOMAIN default_type_comparator
    /\ default_type_comparator[<<"int", "str">>] = "lambda: False"
    /\ engine[2].output[2].fn = "no_flag_tuple_abbrev"
    /\ OutputDefault \notin DOMAIN output_buffer

-----------------------------------------------------------------------------
(* Nested inputs, a named comparator and an exclusion: what a call changes  *)

\* most records of a sequence compared
MaxNested == 2

ReadOnlyRecord(i, v) == DictV(FieldId :> IntV(i) @@ FieldV :> IntV(v))
\* scalars, maps of a scalar and a map, sequences of records and of scalars
ReadOnlyPairs ==
    {<<IntV(1), StrV(<<"1">>)>>, <<None, StrV(<<>>)>>}
        \cup {<<DictV(KeyA :> IntV(1) @@ KeyK :> DictV(KeyA :> IntV(x))),
                DictV(KeyA :> IntV(2) @@ KeyK :> DictV(KeyA :> IntV(y)))>> : x, y \in 1..2}
        \cup {<<ListV([i \in 1..n |-> ReadOnlyRecord(i, 1)]), ListV([i \in 1..m |-> ReadOnlyRecord(i, i)])>> :
                n, m \in 1..MaxNested}
        \cup {<<ListV(<<IntV(1), IntV(2)>>), TupleV(<<IntV(2)>>)>>}
ReadOnlyConfigs ==
    {0, DEFAULT_DELTA_CONFIG + NoneUnequalDefault, KeyCaseIgnored + MissingAsNone + OutputWithFlag}

InitReadOnly ==
    /\ Start
    /\ options \in ReadOnlyConfigs
    /\ named_comparators \in {<<>>, <<<<StrV(<<"k", ">", "a">>), "lambda: l != r">>>>}
    /\ keys_excluded \in {<<>>, <<FieldV>>}
    /\ \E pair \in ReadOnlyPairs : lhs = pair[1] /\ rhs = pair[2]

SpecReadOnly == InitReadOnly /\ [][NextCompare]_vars

-----------------------------------------------------------------------------
(* The recursion of compare_any, one call at a time                         *)

\* deepest nesting of an input
MaxNesting == 2
\* most calls of compare_any on the stack
MaxCalls == 4

\* compare_any without its test of two str
Branch_no_str(l, r, path, e) ==
    IF get_named_comparator(e, path) # None THEN "named"
    ELSE IF PyEq(l, r) THEN "equal"
    ELSE IF IsMapping(l) /\ IsMapping(r) THEN "dict"
    ELSE IF IsSequence(l) /\ IsSequence(r) THEN "sequence"
    ELSE "typed"

\* the return statement compare_any reaches, by its tests in their order
Branch(l, r, path, e) ==
    IF get_named_comparator(e, path) # None THEN "named"
    ELSE IF PyEq(l, r) THEN "equal"
    ELSE IF IsStr(l) /\ IsStr(r) THEN "str"
    ELSE IF IsMapping(l) /\ IsMapping(r) THEN "dict"
    ELSE IF IsSequence(l) /\ IsSequence(r) THEN "sequence"
    ELSE "typed"

\* the values compare_dict reads for the keys it loops over, with their path
EntriesRead(l, r, dict_path, e, l_keys, r_keys, ci, st) ==
    UNION {{<<l_value, r_value, PathOf(dict_path, key)>> :
                l_value \in ValuesUnder(l, matched_keys(key, l_keys, ci, st), e),
                r_value \in ValuesUnder(r, matched_keys(key, r_keys, ci, st), e)} :
            key \in {k \in {normalize(j, ci, FALSE) : j \in KeysUnion(l_keys, r_keys)} :
                        /\ ~is_excluded(e, PathOf(dict_path, k))
                        /\ ~matched_keys_raises(k, l_keys, ci, st)
                        /\ ~matched_keys_raises(k, r_keys, ci, st)}}

\* the calls of compare_any that compare_dict makes: for the entries with no
\* named comparator whose two values are not equal
DictCalls(l, r, dict_path, e) ==
    {call \in EntriesRead(l, r, dict_path, e, KeysCompared(l, dict_path, e), KeysCompared(r, dict_path, e),
                          matches(e.config, KeyCaseIgnored, 0), matches(e.config, KeySpaceTrimmed, 0)) :
        get_named_comparator(e, call[3]) = None /\ ~PyEq(call[1], call[2])}

\* the calls that compare_sequence makes through compare_dict, none when a
\* conversion raises
ConvertedCalls(l_dict, r_dict, seq_path, e) ==
    IF IsRaise(l_dict) \/ IsRaise(r_dict) THEN {} ELSE DictCalls(l_dict, r_dict, seq_path, e)

GuessedCalls(l, r, seq_path, e, l_keys, r_keys) ==
    IF IsRaise(l_keys) \/ IsRaise(r_keys) \/ l_keys[1] = "dict" THEN {}
    ELSE UNION {ConvertedCalls(dicts[1], dicts[2], seq_path, e) :
                    dicts \in {<<sequence_to_dict(l, matches(e.config, IdAsKey, 0),
                                                  matches(e.config, KeyCaseIgnored, 0), l_keys[2] \cap r_keys[2]),
                                 sequence_to_dict(r, matches(e.config, IdAsKey, 0),
                                                  matches(e.config, KeyCaseIgnored, 0), l_keys[2] \cap r_keys[2])>>}}

SequenceCalls(l, r, seq_path, e) ==
    GuessedCalls(l, r, seq_path, e,
                 guess_keys(l, matches(e.config, IdAsKey, 0), matches(e.config, KeyCaseIgnored, 0), {}),
                 guess_keys(r, matches(e.config, IdAsKey, 0), matches(e.config, KeyCaseIgnored, 0), {}))

\* the calls of compare_any that one call of compare_any makes
ChildCalls(l, r, path, e) ==
    CASE Branch(l, r, path, e) = "dict" -> DictCalls(l, r, path, e)
      [] Branch(l, r, path, e) = "sequence" -> SequenceCalls(l, r, path, e)
      [] OTHER -> {}

\* a call of compare_any on the stack and the calls it has still to make
Frame(l, r, path, e) == [l |-> l, r |-> r, path |-> path, todo |-> ChildCalls(l, r, path, e)]

Stack == call_args[2]
Top == Stack[Len(Stack)]

\* comparator.compare_any(lhs, rhs) is called
EnterCompareAny ==
    /\ pc = "ready"
    /\ pc' = "comparing"
    /\ call_args' = <<"compare_any", <<Frame(lhs, rhs, <<>>, engine[2])>>>>
    /\ UNCHANGED <<options, named_comparators, keys_excluded, lhs, rhs, engine, result,
                   km_kp, km_key_path, km_case_ignored, km_matched,
                   output_buffer, default_type_comparator, call_result>>

\* the call on top of the stack calls compare_any for one of its entries
NestedCompareAny ==
    /\ pc = "comparing"
    /\ Len(Stack) < MaxCalls
    /\ \E call \in Top.todo :
            call_args' = <<"compare_any",
                           [Stack EXCEPT ![Len(Stack)].todo = @ \ {call}]
                                \o <<Frame(call[1], call[2], call[3], engine[2])>>>>
    /\ UNCHANGED <<options, named_comparators, keys_excluded, lhs, rhs, pc, engine, result,
                   km_kp, km_key_path, km_case_ignored, km_matched,
                   output_buffer, default_type_comparator, call_result>>

\* the call on top of the stack has made its calls and returns or raises: a
\* raise unwinds the stack, and the return of the first call is the result
ReturnCompareAny ==
    /\ pc = "comparing"
    /\ Top.todo = {}
    /\ \E returned \in compare_any(Top.l, Top.r, Top.path, engine[2]) :
            IF IsRaise(returned)
            THEN /\ call_args' = <<"compare_any", <<>>>>
                 /\ result' = returned
                 /\ pc' = "done"
            ELSE IF Len(Stack) > 1
            THEN /\ call_args' = <<"compare_any", SubSeq(Stack, 1, Len(Stack) - 1)>>
                 /\ result' = result
                 /\ pc' = pc
            ELSE /\ call_args' = <<"compare_any", <<>>>>
                 /\ result' = returned
                 /\ pc' = "done"
    /\ UNCHANGED <<options, named_comparators, keys_excluded, lhs, rhs, engine,
                   km_kp, km_key_path, km_case_ignored, km_matched,
                   output_buffer, default_type_comparator, call_result>>

\* a scalar and two strs, under n levels of maps and lists in turn
RECURSIVE Wrapped(_)
Wrapped(n) ==
    IF n = 0 THEN {IntV(1), StrV(<<"a">>), StrV(<<"a", "b">>)}
    ELSE IF n % 2 = 1 THEN {DictV(KeyK :> x) : x \in Wrapped(n - 1)}
    ELSE {ListV(<<x>>) : x \in Wrapped(n - 1)}

\* the values nested at most n deep, with sequences of scalars and a list of
\* one record that has an id
NestedValues(n) ==
    {ListV(<<>>), ListV(<<IntV(1), StrV(<<"a">>)>>), TupleV(<<IntV(1), IntV(2)>>),
     ListV(<<DictV(FieldId :> IntV(1))>>)}
        \cup UNION {Wrapped(k) : k \in 0..n}

InitRecursion ==
    /\ Start
    /\ options \in {0, KeyCaseIgnored + IdAsKey}
    /\ named_comparators = <<>>
    /\ keys_excluded = <<>>
    /\ lhs \in NestedValues(MaxNesting)
    /\ rhs \in NestedValues(MaxNesting)

NextRecursion ==
    \/ Construct
    \/ EnterCompareAny
    \/ NestedCompareAny
    \/ ReturnCompareAny

\* every call that can be made or can return is made or returns
SpecRecursion == InitRecursion /\ [][NextRecursion]_vars /\ WF_vars(NextRecursion)

RECURSIVE NestingDepth(_)
\* how deep the lists, tuples and maps of a value are nested
NestingDepth(v) ==
    IF v[1] \in {"list", "tuple"}
    THEN 1 + (IF Len(v[2]) = 0 THEN 0 ELSE SetMax({NestingDepth(v[2][i]) : i \in 1..Len(v[2])}))
    ELSE IF v[1] = "dict"
    THEN 1 + (IF DOMAIN v[2] = {} THEN 0 ELSE SetMax({NestingDepth(v[2][k]) : k \in DOMAIN v[2]}))
    ELSE 0

\* c is an item of the list or tuple p, a value of the map p, or a character
\* of the str p: the one character of a str is the str
Component(c, p) ==
    \/ p[1] \in {"list", "tuple"} /\ \E i \in 1..Len(p[2]) : p[2][i] = c
    \/ p[1] = "dict" /\ \E k \in DOMAIN p[2] : p[2][k] = c
    \/ IsStr(p) /\ \E i \in 1..Len(p[2]) : c = StrV(<<p[2][i]>>)

\* a component that is not the whole of p
StrictComponent(c, p) == Component(c, p) /\ c # p

\* the calls nested in the first call are no more than the inputs are deep
DepthWithinInputs == Len(Stack) - 1 <= SetMax({NestingDepth(lhs), NestingDepth(rhs)})

\* each nested call compares a strictly nested component of a side of the
\* call that made it
NestedStrictly ==
    pc = "comparing" =>
        /\ DepthWithinInputs
        /\ \A i \in 2..Len(Stack) :
                StrictComponent(Stack[i].l, Stack[i - 1].l) \/ StrictComponent(Stack[i].r, Stack[i - 1].r)

\* each nested call compares a component of a side of the call that made it
NestedWithinInputs ==
    pc = "comparing" =>
        /\ DepthWithinInputs
        /\ \A i \in 2..Len(Stack) :
                Component(Stack[i].l, Stack[i - 1].l) \/ Component(Stack[i].r, Stack[i - 1].r)

====
